---- MODULE Spec2Model ----
(***************************************************************************)
(* A model of grok-cli's orchestration runtime.                            *)
(*                                                                         *)
(* Part A  (Spec, FairSpec): the built-in mutating tools (systemctl, apt,  *)
(*         code_execution), the Confirmation Gate, the TUI's               *)
(*         ConfirmationProvider and ConfirmationDialog, and the dispatcher *)
(*         boundary that records every tool result.                        *)
(*                                                                         *)
(* Part B  (SpecStream, FairStream): one streamed model response: the      *)
(*         provider's fragments, GrokClient.chatStream, the Streaming      *)
(*         Response Assembler and the two loops of the TUI that consume    *)
(*         its events.                                                     *)
(*                                                                         *)
(* Part C  (SpecMcp): the Protocol Client's invokes on one Ready           *)
(*         connection, multiplexed by correlation id.                      *)
(*                                                                         *)
(* Part D  (SpecOrch, FairOrch): the Agent Orchestrator's turn: model      *)
(*         calls, tool rounds, the round limit and the abort signal,       *)
(*         started from the TUI or from headless mode.                     *)
(*                                                                         *)
(* Part E  (SpecConn, FairConn): the Protocol Client's ServerConnections:  *)
(*         connect, handshake, tool discovery, invoke, per-call timeout,   *)
(*         remove and unexpected transport close, for two servers, and    *)
(*         the `grok mcp` commands that drive them.                        *)
(*                                                                         *)
(* Part F  (SpecChat): the TUI's chat history: handleSubmit and            *)
(*         processUserMessage, which turns the agent's events into chat    *)
(*         entries, for the submissions one run of the TUI accepts.        *)
(*                                                                         *)
(* Part G  (SpecTools): one operation of a built-in tool from execute()    *)
(*         to the ToolResult it returns: systemctl, apt, disk, network,    *)
(*         code_execution and web_search, whatever the session flags are.  *)
(*                                                                         *)
(* Part H  (SpecKeys): the input line (InputProvider) and the main         *)
(*         keyboard handler of ChatInterface, key press by key press,      *)
(*         with the confirmation dialog displayed over it at times.        *)
(*                                                                         *)
(* Part I  (SpecGit): one run of /commit-and-push, in the TUI or headless, *)
(*         bash command by bash command.                                   *)
(*                                                                         *)
(* A text is a sequence of tokens.  A token is either one typed character  *)
(* (" " or "a") or one fixed message of the program, so that trimming and  *)
(* the `feedback || default` fallback of the code are computed on them.    *)
(***************************************************************************)
EXTENDS Integers, Sequences, FiniteSets, TLC

\* ------------------------------------------------------------------ bounds
\* Number of turns that may run tool calls concurrently in the TUI.
NumCallers == 2
\* Longest feedback text the human types in the dialog.
MaxFeedback == 2
\* Number of tool-call indices of one model response.
NumIndices == 2
\* Number of concurrent invokers of one server connection.
NumInvokers == 2
\* Number of correlation ids a connection hands out.
MaxIds == 3
\* Largest explicit --max-tool-rounds argument.
MaxRoundsArg == 1
\* Most tool calls the model asks for in one round.
MaxToolCalls == 2
\* Number of turns of one interactive run.
MaxTurns == 2
\* Most characters typed into the input line.
MaxInput == 1
\* Most inputs submitted from the input line.
MaxSubmits == 1
\* Most entries of the input history in the runs of the input line alone.
MaxHistory == 2

\* ---------------------------------------------------------------- constants
\* .option("max-tool-rounds", { default: 400 }) and `args.maxToolRounds || 400`
DefaultMaxToolRounds == 400
\* Number of fragments (content or argument deltas) of one model response.
MaxFragments == 4

Callers == 1..NumCallers
Indices == 1..NumIndices
Invokers == 1..NumInvokers
Chars == {" ", "a"}
Tools == {"systemctl", "apt", "code_execution"}
BuiltinTools == {"systemctl", "apt", "disk", "network", "code_execution", "web_search"}

\* ------------------------------------------------------------------- texts
RECURSIVE trimStart(_)
trimStart(s) ==
  IF s # <<>> /\ Head(s) = " " THEN trimStart(Tail(s)) ELSE s

RECURSIVE trimEnd(_)
trimEnd(s) ==
  IF s # <<>> /\ s[Len(s)] = " " THEN trimEnd(SubSeq(s, 1, Len(s) - 1)) ELSE s

\* String.prototype.trim
trim(s) == trimEnd(trimStart(s))

\* prev.slice(0, -1)
dropLast(s) == IF s = <<>> THEN s ELSE SubSeq(s, 1, Len(s) - 1)

\* a || b on strings: the empty string is falsy
OrElse(a, b) == IF a # <<>> THEN a ELSE b

CancelledByUser == <<"Operation cancelled by user">>
CancelledByEscape == <<"Operation cancelled by user (pressed Escape)">>

cancelMessage(t) ==
  CASE t = "systemctl" -> <<"Systemctl command cancelled by user">>
    [] t = "apt" -> <<"Apt command cancelled by user">>
    [] OTHER -> <<"Code execution cancelled by user">>

failedMessage(t) ==
  CASE t = "systemctl" -> <<"Systemctl command failed: ">>
    [] t = "apt" -> <<"Apt command failed: ">>
    [] OTHER -> <<"Code execution failed: ">>

DockerMissing == <<"Docker is required for safe code execution but is not available. Please install Docker.">>
ToolExecutionError == <<"Tool execution error">>
CommandOutput == <<"Command executed successfully (no output)">>

\* ToolResult {success, output, error}
Ok(out) == [success |-> TRUE, output |-> out, error |-> <<>>]
Fail(err) == [success |-> FALSE, output |-> <<>>, error |-> err]
NoResult == [success |-> FALSE, output |-> <<>>, error |-> <<>>]

\* ConfirmationResult {confirmed, dontAskAgain, feedback}; `shown` and `typed`
\* are history fields: the request the dialog displayed when the human decided
\* and the raw text the human had typed.
NoDecision ==
  [made |-> FALSE, confirmed |-> FALSE, dontAskAgain |-> FALSE,
   feedback |-> <<>>, shown |-> 0, typed |-> <<>>]

VARIABLES
  mode,                 \* "boot", "headless" or "tui"
  sessionFlags,         \* ConfirmationService.sessionFlags
  pendingConfirmation,  \* the one outstanding request (a caller), 0 when none
  waitq,                \* callers suspended in requestConfirmation
  gateResult,           \* per caller: the ConfirmationResult it was resolved with
  options,              \* ConfirmationProvider: displayed request, 0 = null
  autoEditEnabled,      \* ConfirmationProvider signal
  selectedOption,       \* ConfirmationDialog signals
  feedbackMode,
  feedback,
  pc,                   \* per caller: position in the tool call
  tool,                 \* per caller: tool of the call in progress
  requiresConfirmation, \* per caller: runCommand's second argument
  result,               \* per caller: ToolResult of the call
  toolMessage,          \* per caller: content of the tool message fed back to the model
  hist                  \* per caller: history of the call in progress

gateVars == <<sessionFlags, pendingConfirmation, waitq, gateResult>>
uiVars == <<options, autoEditEnabled, selectedOption, feedbackMode, feedback>>
callVars == <<pc, tool, requiresConfirmation, result, toolMessage, hist>>
varsA == <<mode, gateVars, uiVars, callVars>>

VARIABLES
  isProcessing,         \* ChatProvider signals
  isStreaming

chatVars == <<isProcessing, isStreaming>>

VARIABLES
  sPhase,               \* the model's response stream: "none", "open", "terminal", "closed", "threw"
  nFrag,                \* fragments delivered on the stream so far
  sent,                 \* history, per call index: its fragments in arrival order
  arrival,              \* history: the call indices of the argument fragments in arrival order
  acc,                  \* assembler: accumulated argument payload per call index
  outq,                 \* events the assembler yielded and the caller has not taken yet
  events,               \* history: the events the caller has seen
  cState,               \* caller: "idle", "looping", "afterLoop", "finished"
  kind,                 \* caller: "message" (processUserMessage) or "commit" (/commit-and-push)
  streamingEntry        \* processUserMessage: streamingEntry !== null

varsS == <<sPhase, nFrag, sent, arrival, acc, outq, events, cState, kind, streamingEntry>>

VARIABLES
  mConn,                \* ServerConnection state
  nextId,               \* next fresh correlation id
  pendingRequests,      \* pending-requests map: records [id, invoker]
  toServer,             \* request frames written to the transport
  toClient,             \* response frames on their way to the client
  inv,                  \* per invoker: its invoke call
  delivered             \* history: ids of the responses in the order they resolved a call

varsM == <<mConn, nextId, pendingRequests, toServer, toClient, inv, delivered>>

VARIABLES
  oState,               \* Orchestrator state
  maxArg,               \* the --max-tool-rounds argument, NotGiven when absent
  maxToolRounds,        \* the agent's configured maximum
  rounds,               \* round counter of the turn
  nCalls,               \* tool calls the model asks for in each tool round of this run
  callsLeft,            \* tool calls of the round not yet completed
  toolRunning,          \* a tool invocation is in flight
  abortRaised,          \* the abort signal of the turn
  entries,              \* the conversation entries
  turns,                \* turns started in this run
  outcome,              \* outcome of the last turn
  printed,              \* headless: the messages written on exit
  modelCalls,           \* history: model calls started in the turn
  toolInvocations,      \* history: tool invocations started in the turn
  mutatingInvoked,      \* history: a mutating tool was invoked in the turn
  surfaced,             \* history: a confirmation was surfaced to the human in the turn
  showCommandSuggestions, \* ChatInterface signals
  showModelSelection

varsO == <<oState, maxArg, maxToolRounds, rounds, nCalls, callsLeft, toolRunning,
           abortRaised, entries, turns, outcome, printed, modelCalls, toolInvocations,
           mutatingInvoked, surfaced, showCommandSuggestions, showModelSelection>>

VARIABLES
  host,                 \* the host process: "running" or "exited"
  exitCode,             \* its exit status once exited
  config,               \* names of the configured servers (loadMCPConfig().servers)
  conn,                 \* per server: ServerConnection state
  hsStep,               \* per server: progress of the handshake
  transportOpen,        \* per server: the transport is open
  closedEvent,          \* per server: a transport-closed event not yet handled
  addedBy,              \* per server: who awaits addServer: "none", "startup", "command"
  reported,             \* servers whose connection failure was reported
  catalog,              \* merged tool catalog: records [name, serverName]
  pendingOf,            \* per server: pending-requests map, records [id, client]
  nextIdOf,             \* per server: next fresh correlation id
  atServer,             \* per server: ids of the requests not yet answered
  call                  \* per client: its invoke call

varsE == <<host, exitCode, config, conn, hsStep, transportOpen, closedEvent, addedBy,
           reported, catalog, pendingOf, nextIdOf, atServer, call>>

VARIABLES
  history,              \* ChatProvider.history: the chat entries
  loop,                 \* per submission: its processUserMessage call
  turnOf,               \* per submission: the agent's event stream of its turn
  cancelled,            \* history: Escape or a rejection has reset the indicators
  nextCallId            \* next fresh tool-call id

varsF == <<history, loop, turnOf, nextCallId, cancelled>>

VARIABLES
  tOp,                  \* the operation in progress: [tool, operation, arg]
  tPc,                  \* its position: "idle", "docker", "confirming", "exec", "returned", "threw"
  tFlags,               \* the session flags as getSessionFlags() returns them
  tAsked,               \* history: requestConfirmation was called for it
  tRan,                 \* history: execAsync of its command was called
  tResult               \* the ToolResult it returned

varsG == <<tOp, tPc, tFlags, tAsked, tRan, tResult>>

VARIABLES
  input,                \* InputProvider signals
  cursorPosition,
  inputHistory,         \* InputProvider.history
  historyIndex,
  originalInput,
  selectedCommandIndex, \* ChatInterface signals
  selectedModelIndex,
  currentModel,         \* agent.getCurrentModel()
  turnsInFlight,        \* processUserMessage calls that have not returned
  committing,           \* /commit-and-push commands that have not returned
  abortCalled,          \* history: agent.abortCurrentOperation() was called
  exited                \* process.exit(0) was called

varsH == <<input, cursorPosition, inputHistory, historyIndex, originalInput,
           selectedCommandIndex, selectedModelIndex, currentModel, turnsInFlight,
           committing, abortCalled, exited>>

\* ---- Part I
VARIABLES
  gitMode,              \* who runs /commit-and-push: "none", "tui" or "headless"
  gitPc,                \* its position: "idle", "status", "add", "diff", "message", "commit",
                        \* "push", "upstream", "ended"
  gitLog                \* the executeBashCommand calls so far, with their results

varsI == <<gitMode, gitPc, gitLog>>

vars == <<varsA, chatVars, varsS, varsM, varsO, varsE, varsF, varsG, varsH, varsI>>

\* What the actions of parts A, B and C leave alone.
restA == <<chatVars, varsS, varsM, varsO, varsE, varsF, varsG, varsH, varsI>>
restS == <<varsM, varsO, varsE, varsF, varsG, varsH, varsI>>

\* History of one call: was the underlying command run, was a confirmation
\* event emitted for it, did the flags cover it when the tool read them, did
\* its handler raise a fault, did the gate return an approval, was its request
\* suspended behind an outstanding one.
NoHist ==
  [executed |-> FALSE, prompted |-> FALSE, covered |-> FALSE,
   faulted |-> FALSE, approved |-> FALSE, waited |-> FALSE]

NoFlags ==
  [fileOperations |-> FALSE, bashCommands |-> FALSE, allOperations |-> FALSE]

\* ------------------------------------------------- Confirmation Gate (service)
\* operationType passed by every tool of the repository to requestConfirmation
category(t) == "bash"

flagOf(cat) == IF cat = "bash" THEN "bashCommands" ELSE "fileOperations"

\* The gate's own short-circuit: the category's flag or the global flag.
Covers(flags, cat) == flags.allOperations \/ flags[flagOf(cat)]

setSessionFlag(flags, name, value) == [flags EXCEPT ![name] = value]

resetSession_keepsGlobal(flags) ==
  [NoFlags EXCEPT !.allOperations = flags.allOperations]

\* resetSession(): every flag false
resetSession(flags) == NoFlags

\* ConfirmationProvider: the "confirmation-requested" listener, setOptions(opts)
handleConfirmationRequest(opts) == opts

\* emit("confirmation-requested", opts): the provider listens once the TUI is
\* mounted; headless mode has no listener.
emit(opts) == IF mode = "tui" THEN handleConfirmationRequest(opts) ELSE options

\* How a request is taken on entry: resolved at once by a covering flag, made
\* the one outstanding request, or suspended behind the outstanding one.
GateEntry(cat) ==
  IF Covers(sessionFlags, cat) THEN "approved"
  ELSE IF pendingConfirmation = 0 /\ waitq = <<>> THEN "pending"
  ELSE "wait"

\* ------------------------------------------------------- dispatcher boundary
\* A fault of the handler is converted to a failed ToolResult; nothing is
\* thrown upward into the orchestration loop.
dispatcherBoundary(threw, r) ==
  IF threw THEN [pc |-> "done", result |-> Fail(ToolExecutionError)]
  ELSE [pc |-> "done", result |-> r]

\* Content of the tool message fed back to the model for a ToolResult.
toolMessageContent(r) == IF r.success THEN r.output ELSE r.error

\* ------------------------------------------------------------ built-in tools
\* if (!sessionFlags.bashCommands && !sessionFlags.allOperations)
toolAsks(flags) == ~flags.bashCommands /\ ~flags.allOperations

afterConfirmation_ignoresRejection(t, r) ==
  [returns |-> FALSE, result |-> NoResult]

\* if (!confirmationResult.confirmed) return {success: false, error: feedback || '... cancelled by user'}
afterConfirmation(t, r) ==
  IF ~r.confirmed
  THEN [returns |-> TRUE, result |-> Fail(OrElse(r.feedback, cancelMessage(t)))]
  ELSE [returns |-> FALSE, result |-> NoResult]

catchBlock_reportsSuccess(t) == Ok(failedMessage(t))

\* catch (error) { return {success: false, error: `... failed: ${error.message}`} }
catchBlock(t) == Fail(failedMessage(t))

\* runCommand wraps requestConfirmation in its try block; runCode calls it
\* before its try block, so a fault there leaves the handler.
catchesGateFault(t) == t # "code_execution"

\* In headless mode one prompt is processed by one sequential turn.
Active(c) == mode = "tui" \/ (mode = "headless" /\ c = 1)

\* A handler that returned runs on, without suspending, through the dispatcher
\* into the orchestrator, which appends the tool message and issues the next
\* model call (NextModelCall): no other event is handled in between.
Quiet == \A c \in Callers : pc[c] # "done"

\* The handler of caller c ends: it returned r, or threw.
Complete(c, threw, r) ==
  LET o == dispatcherBoundary(threw, r)
  IN /\ pc' = [pc EXCEPT ![c] = o.pc]
     /\ result' = [result EXCEPT ![c] = o.result]
     /\ toolMessage' = [toolMessage EXCEPT ![c] = toolMessageContent(o.result)]

\* The requestConfirmation promise of caller c resolved with r: the tool
\* returns the rejection or goes on to run the command.
Resumed(c, r) ==
  LET a == afterConfirmation(tool[c], r)
  IN IF a.returns
     THEN /\ Complete(c, FALSE, a.result)
          /\ hist' = [hist EXCEPT ![c].approved = r.confirmed]
     ELSE /\ pc' = [pc EXCEPT ![c] = "exec"]
          /\ hist' = [hist EXCEPT ![c].approved = r.confirmed]
          /\ UNCHANGED <<result, toolMessage>>

\* The outstanding request is resolved with decision d; approve-and-remember
\* sets the flag of the request's category.
resolveConfirmation(d) ==
  IF pendingConfirmation # 0
  THEN /\ gateResult' = [gateResult EXCEPT ![pendingConfirmation] = d]
       /\ pendingConfirmation' = 0
       /\ sessionFlags' =
            IF d.confirmed /\ d.dontAskAgain
            THEN setSessionFlag(sessionFlags, flagOf(category(tool[pendingConfirmation])), TRUE)
            ELSE sessionFlags
       /\ Resumed(pendingConfirmation, d)
       /\ UNCHANGED <<waitq, tool, requiresConfirmation>>
  ELSE UNCHANGED <<gateVars, callVars>>

confirmOperation(confirmed, dontAskAgain) ==
  resolveConfirmation(
    [made |-> TRUE, confirmed |-> confirmed, dontAskAgain |-> dontAskAgain,
     feedback |-> <<>>, shown |-> options, typed |-> <<>>])

rejectOperation(fb, raw) ==
  resolveConfirmation(
    [made |-> TRUE, confirmed |-> FALSE, dontAskAgain |-> FALSE,
     feedback |-> fb, shown |-> options, typed |-> raw])

\* ------------------------------------------------------ ConfirmationProvider
\* <Show when={confirmation.options()}> unmounts the dialog: its signals are
\* created anew for the next request.
DialogUnmounted ==
  /\ selectedOption' = 0
  /\ feedbackMode' = FALSE
  /\ feedback' = <<>>

confirm_keepsOptions(dontAskAgain) ==
  /\ confirmOperation(TRUE, dontAskAgain)
  /\ UNCHANGED options
  /\ DialogUnmounted

confirm_forgets(dontAskAgain) ==
  /\ confirmOperation(TRUE, FALSE)
  /\ options' = 0
  /\ DialogUnmounted

\* confirm: confirmOperation(true, dontAskAgain); setOptions(null)
confirm(dontAskAgain) ==
  /\ confirmOperation(TRUE, dontAskAgain)
  /\ options' = 0
  /\ DialogUnmounted

reject_resolvesNothing(fb, raw) ==
  /\ options' = 0
  /\ DialogUnmounted
  /\ UNCHANGED <<gateVars, callVars>>

\* reject: rejectOperation(feedback); setOptions(null)
reject(fb, raw) ==
  /\ rejectOperation(fb, raw)
  /\ options' = 0
  /\ DialogUnmounted

toggleAutoEdit ==
  /\ autoEditEnabled' = ~autoEditEnabled
  /\ sessionFlags' =
       IF ~autoEditEnabled
       THEN setSessionFlag(sessionFlags, "allOperations", TRUE)
       ELSE resetSession(sessionFlags)

\* -------------------------------------------------------- ConfirmationDialog
dialogFeedback_untrimmed(fb) == fb

\* confirmation.reject(feedback().trim())
dialogFeedback(fb) == trim(fb)

\* Enter
DialogReturn ==
  /\ mode = "tui" /\ options # 0 /\ Quiet
  /\ IF feedbackMode
     THEN reject(dialogFeedback(feedback), feedback)
     ELSE CASE selectedOption = 0 -> confirm(FALSE)
            [] selectedOption = 1 -> confirm(TRUE)
            [] selectedOption = 2 -> reject(CancelledByUser, CancelledByUser)
            [] OTHER -> /\ feedbackMode' = TRUE
                        /\ UNCHANGED <<gateVars, options, selectedOption, feedback, callVars>>
  /\ UNCHANGED <<mode, autoEditEnabled>>
  /\ UNCHANGED restA

\* Escape
DialogEscape ==
  /\ mode = "tui" /\ options # 0 /\ Quiet
  /\ IF feedbackMode
     THEN /\ feedbackMode' = FALSE
          /\ feedback' = <<>>
          /\ UNCHANGED <<gateVars, options, selectedOption, callVars>>
     ELSE reject(CancelledByEscape, CancelledByEscape)
  /\ UNCHANGED <<mode, autoEditEnabled>>
  /\ UNCHANGED restA

\* Up / Shift+Tab and Down / Tab
DialogUp ==
  /\ mode = "tui" /\ options # 0 /\ ~feedbackMode /\ Quiet
  /\ selectedOption' = IF selectedOption > 0 THEN selectedOption - 1 ELSE 3
  /\ UNCHANGED <<mode, gateVars, options, autoEditEnabled, feedbackMode, feedback, callVars>>
  /\ UNCHANGED restA

DialogDown ==
  /\ mode = "tui" /\ options # 0 /\ ~feedbackMode /\ Quiet
  /\ selectedOption' = (selectedOption + 1) % 4
  /\ UNCHANGED <<mode, gateVars, options, autoEditEnabled, feedbackMode, feedback, callVars>>
  /\ UNCHANGED restA

\* A printable key, and Backspace, in feedback mode
DialogType(ch) ==
  /\ mode = "tui" /\ options # 0 /\ feedbackMode /\ Quiet
  /\ Len(feedback) < MaxFeedback
  /\ feedback' = Append(feedback, ch)
  /\ UNCHANGED <<mode, gateVars, options, autoEditEnabled, selectedOption, feedbackMode, callVars>>
  /\ UNCHANGED restA

DialogBackspace ==
  /\ mode = "tui" /\ options # 0 /\ feedbackMode /\ Quiet
  /\ feedback' = dropLast(feedback)
  /\ UNCHANGED <<mode, gateVars, options, autoEditEnabled, selectedOption, feedbackMode, callVars>>
  /\ UNCHANGED restA

\* ------------------------------------------------- main chat keyboard handler
\* Shift+Tab, handled only while no dialog is displayed
ShiftTab ==
  /\ mode = "tui" /\ options = 0 /\ Quiet
  /\ toggleAutoEdit
  /\ UNCHANGED <<mode, pendingConfirmation, waitq, gateResult, options,
                 selectedOption, feedbackMode, feedback, callVars>>
  /\ UNCHANGED restA

\* "/clear": ConfirmationService.getInstance().resetSession()
ClearCommand ==
  /\ mode = "tui" /\ options = 0 /\ Quiet
  /\ sessionFlags' = resetSession(sessionFlags)
  /\ UNCHANGED <<mode, pendingConfirmation, waitq, gateResult, uiVars, callVars>>
  /\ UNCHANGED restA

\* ------------------------------------------------------- tool call handlers
\* History at the moment the tool reads the session flags: does a flag cover
\* the mutating operation (the category's flag or the global one).
Began(t, rc) == [NoHist EXCEPT !.covered = rc /\ Covers(sessionFlags, category(t))]

\* The tool reads the session flags and, when none covers the operation,
\* calls requestConfirmation; rc is runCommand's requiresConfirmation.
AskOrRun(c, t, rc) ==
  \/ /\ ~(rc /\ toolAsks(sessionFlags))
     /\ pc' = [pc EXCEPT ![c] = "exec"]
     /\ hist' = [hist EXCEPT ![c] = Began(t, rc)]
     /\ UNCHANGED <<gateVars, options, result, toolMessage>>
  \/ /\ rc /\ toolAsks(sessionFlags)
     /\ LET e == GateEntry(category(t))
        IN /\ pendingConfirmation' = IF e = "pending" THEN c ELSE pendingConfirmation
           /\ waitq' = IF e = "wait" THEN Append(waitq, c) ELSE waitq
           /\ options' = IF e = "pending" THEN emit(c) ELSE options
           /\ pc' = [pc EXCEPT ![c] = IF e = "approved" THEN "exec" ELSE "awaiting"]
           /\ hist' = [hist EXCEPT ![c] =
                         [Began(t, rc) EXCEPT !.prompted = (e = "pending"),
                                              !.approved = (e = "approved"),
                                              !.waited = (e = "wait")]]
     /\ UNCHANGED <<sessionFlags, gateResult, result, toolMessage>>
  \/ /\ rc /\ toolAsks(sessionFlags)
     /\ IF catchesGateFault(t)
        THEN Complete(c, FALSE, catchBlock(t))
        ELSE Complete(c, TRUE, NoResult)
     /\ hist' = [hist EXCEPT ![c] = [Began(t, rc) EXCEPT !.faulted = TRUE]]
     /\ UNCHANGED <<gateVars, options>>

\* SystemctlTool.runCommand / AptTool.runCommand
StartRunCommand(c, t, rc) ==
  /\ Active(c) /\ pc[c] = "idle" /\ Quiet
  /\ tool' = [tool EXCEPT ![c] = t]
  /\ requiresConfirmation' = [requiresConfirmation EXCEPT ![c] = rc]
  /\ AskOrRun(c, t, rc)
  /\ UNCHANGED <<mode, autoEditEnabled, selectedOption, feedbackMode, feedback>>
  /\ UNCHANGED restA

\* CodeExecutionTool.runCode: the docker check comes first
StartRunCode(c) ==
  /\ Active(c) /\ pc[c] = "idle" /\ Quiet
  /\ tool' = [tool EXCEPT ![c] = "code_execution"]
  /\ requiresConfirmation' = [requiresConfirmation EXCEPT ![c] = TRUE]
  /\ pc' = [pc EXCEPT ![c] = "docker"]
  /\ UNCHANGED <<mode, gateVars, uiVars, result, toolMessage, hist>>
  /\ UNCHANGED restA

DockerMissingReturn(c) ==
  /\ pc[c] = "docker" /\ Quiet
  /\ Complete(c, FALSE, Fail(DockerMissing))
  /\ UNCHANGED <<mode, gateVars, uiVars, tool, requiresConfirmation, hist>>
  /\ UNCHANGED restA

DockerAvailable(c) ==
  /\ pc[c] = "docker" /\ Quiet
  /\ AskOrRun(c, "code_execution", TRUE)
  /\ UNCHANGED <<mode, autoEditEnabled, selectedOption, feedbackMode, feedback,
                 tool, requiresConfirmation>>
  /\ UNCHANGED restA

\* execAsync(...) of the underlying command: it succeeds, or its rejection is
\* caught by the handler's try block.
Exec(c) ==
  /\ pc[c] = "exec" /\ Quiet
  /\ \E ok \in BOOLEAN :
       /\ Complete(c, FALSE, IF ok THEN Ok(CommandOutput) ELSE catchBlock(tool[c]))
       /\ hist' = [hist EXCEPT ![c].executed = TRUE, ![c].faulted = ~ok]
  /\ UNCHANGED <<mode, gateVars, uiVars, tool, requiresConfirmation>>
  /\ UNCHANGED restA

\* The tool message is appended; the orchestrator goes on to the next model call.
NextModelCall(c) ==
  /\ pc[c] = "done"
  /\ pc' = [pc EXCEPT ![c] = "idle"]
  /\ tool' = [tool EXCEPT ![c] = "systemctl"]
  /\ requiresConfirmation' = [requiresConfirmation EXCEPT ![c] = FALSE]
  /\ result' = [result EXCEPT ![c] = NoResult]
  /\ toolMessage' = [toolMessage EXCEPT ![c] = <<>>]
  /\ hist' = [hist EXCEPT ![c] = NoHist]
  /\ gateResult' = [gateResult EXCEPT ![c] = NoDecision]
  /\ UNCHANGED <<mode, sessionFlags, pendingConfirmation, waitq, uiVars>>
  /\ UNCHANGED restA

\* The first suspended request is taken up once none is outstanding.
GateWake ==
  /\ pendingConfirmation = 0 /\ waitq # <<>> /\ Quiet
  /\ LET c == Head(waitq)
         covered == Covers(sessionFlags, category(tool[c]))
     IN /\ waitq' = Tail(waitq)
        /\ pendingConfirmation' = IF covered THEN 0 ELSE c
        /\ options' = IF covered THEN options ELSE emit(c)
        /\ pc' = [pc EXCEPT ![c] = IF covered THEN "exec" ELSE "awaiting"]
        /\ hist' = [hist EXCEPT ![c].prompted = ~covered, ![c].approved = covered]
  /\ UNCHANGED <<mode, sessionFlags, gateResult, autoEditEnabled, selectedOption,
                 feedbackMode, feedback, tool, requiresConfirmation, result, toolMessage>>
  /\ UNCHANGED restA

\* ------------------------------------------------------------------ start-up
headlessFlags_unset(flags) == flags

\* processPromptHeadless: confirmationService.setSessionFlag("allOperations", true)
headlessFlags(flags) == setSessionFlag(flags, "allOperations", TRUE)

StartHeadless ==
  /\ mode = "boot"
  /\ mode' = "headless"
  /\ sessionFlags' = headlessFlags(sessionFlags)
  /\ UNCHANGED <<pendingConfirmation, waitq, gateResult, uiVars, callVars>>
  /\ UNCHANGED restA

\* startTUI: ConfirmationProvider reads getSessionFlags().allOperations
StartTUI ==
  /\ mode = "boot"
  /\ mode' = "tui"
  /\ autoEditEnabled' = sessionFlags.allOperations
  /\ UNCHANGED <<gateVars, options, selectedOption, feedbackMode, feedback, callVars>>
  /\ UNCHANGED restA

InitA ==
  /\ mode = "boot"
  /\ sessionFlags = NoFlags
  /\ pendingConfirmation = 0
  /\ waitq = <<>>
  /\ gateResult = [c \in Callers |-> NoDecision]
  /\ options = 0
  /\ autoEditEnabled = FALSE
  /\ selectedOption = 0
  /\ feedbackMode = FALSE
  /\ feedback = <<>>
  /\ pc = [c \in Callers |-> "idle"]
  /\ tool = [c \in Callers |-> "systemctl"]
  /\ requiresConfirmation = [c \in Callers |-> FALSE]
  /\ result = [c \in Callers |-> NoResult]
  /\ toolMessage = [c \in Callers |-> <<>>]
  /\ hist = [c \in Callers |-> NoHist]

InitChat ==
  /\ isProcessing = FALSE
  /\ isStreaming = FALSE

NoCalls == [i \in Indices |-> <<>>]

InitS ==
  /\ sPhase = "none"
  /\ nFrag = 0
  /\ sent = NoCalls
  /\ arrival = <<>>
  /\ acc = NoCalls
  /\ outq = <<>>
  /\ events = <<>>
  /\ cState = "idle"
  /\ kind = "message"
  /\ streamingEntry = FALSE

NoInvoke == [state |-> "idle", id |-> 0, arg |-> "", result |-> [id |-> 0, payload |-> <<>>]]

InitM ==
  /\ mConn = "Disconnected"
  /\ nextId = 1
  /\ pendingRequests = {}
  /\ toServer = {}
  /\ toClient = {}
  /\ inv = [k \in Invokers |-> NoInvoke]
  /\ delivered = <<>>

\* No --max-tool-rounds argument on the command line.
NotGiven == -1

InitO ==
  /\ oState = "Idle"
  /\ maxArg = NotGiven
  /\ maxToolRounds = 0
  /\ rounds = 0
  /\ nCalls = 1
  /\ callsLeft = 0
  /\ toolRunning = FALSE
  /\ abortRaised = FALSE
  /\ entries = <<>>
  /\ turns = 0
  /\ outcome = "none"
  /\ printed = <<>>
  /\ modelCalls = 0
  /\ toolInvocations = 0
  /\ mutatingInvoked = FALSE
  /\ surfaced = FALSE
  /\ showCommandSuggestions = FALSE
  /\ showModelSelection = FALSE

\* Invokes accepted over all connections in one run.
MaxInvokes == 2

\* The two configured remote tool servers and the two callers of invoke.
Servers == {"a", "a__b"}
Clients == {"c1", "c2"}

NoCall == [state |-> "idle", server |-> "", id |-> 0, reason |-> ""]

InitE ==
  /\ host = "running"
  /\ exitCode = 0
  /\ config = Servers
  /\ conn = [s \in Servers |-> "Disconnected"]
  /\ hsStep = [s \in Servers |-> "none"]
  /\ transportOpen = [s \in Servers |-> FALSE]
  /\ closedEvent = [s \in Servers |-> FALSE]
  /\ addedBy = [s \in Servers |-> "none"]
  /\ reported = {}
  /\ catalog = {}
  /\ pendingOf = [s \in Servers |-> {}]
  /\ nextIdOf = [s \in Servers |-> 1]
  /\ atServer = [s \in Servers |-> {}]
  /\ call = [k \in Clients |-> NoCall]

\* Content chunks of one run.
MaxChunks == 2

\* The two submissions of one run, each with its own processUserMessage call.
Loops == {1, 2}

NoLoop == [state |-> "idle", streamingEntry |-> FALSE]
\* message and entryAt are history: the deltas of the message being streamed,
\* concatenated, and the position of the entry created for it.
NoTurn ==
  [phase |-> "none", chunks |-> 0, rounds |-> 0, outstanding |-> {},
   message |-> <<>>, entryAt |-> 0]

InitF ==
  /\ history = <<>>
  /\ loop = [l \in Loops |-> NoLoop]
  /\ turnOf = [l \in Loops |-> NoTurn]
  /\ nextCallId = 1
  /\ cancelled = FALSE

NoOp == [tool |-> "", operation |-> "", arg |-> FALSE]

InitG ==
  /\ tOp = NoOp
  /\ tPc = "idle"
  /\ tFlags = [fileOperations |-> FALSE, bashCommands |-> FALSE, allOperations |-> FALSE]
  /\ tAsked = FALSE
  /\ tRan = FALSE
  /\ tResult = NoResult

InitH ==
  /\ input = <<>>
  /\ cursorPosition = 0
  /\ inputHistory = <<>>
  /\ historyIndex = -1
  /\ originalInput = <<>>
  /\ selectedCommandIndex = 0
  /\ selectedModelIndex = 0
  /\ currentModel = "grok-1"
  /\ turnsInFlight = 0
  /\ committing = 0
  /\ abortCalled = FALSE
  /\ exited = FALSE

InitI ==
  /\ gitMode = "none"
  /\ gitPc = "idle"
  /\ gitLog = <<>>

Init ==
  /\ InitA /\ InitChat /\ InitS /\ InitM /\ InitO /\ InitE /\ InitF /\ InitG /\ InitH
  /\ InitI

Next ==
  \/ StartHeadless
  \/ StartTUI
  \/ \E c \in Callers, t \in {"systemctl", "apt"}, rc \in BOOLEAN : StartRunCommand(c, t, rc)
  \/ \E c \in Callers : StartRunCode(c)
  \/ \E c \in Callers : DockerMissingReturn(c)
  \/ \E c \in Callers : DockerAvailable(c)
  \/ \E c \in Callers : Exec(c)
  \/ \E c \in Callers : NextModelCall(c)
  \/ GateWake
  \/ DialogReturn
  \/ DialogEscape
  \/ DialogUp
  \/ DialogDown
  \/ \E ch \in Chars : DialogType(ch)
  \/ DialogBackspace
  \/ ShiftTab
  \/ ClearCommand

Spec == Init /\ [][Next]_vars

\* ------------------------------------------------------------------ fairness
\* The human eventually decides a displayed request, a suspended request is
\* eventually taken up, and a returned handler runs on to the next model call.
HumanDecides == (DialogReturn \/ DialogEscape) /\ options' = 0

FairSpec ==
  /\ Spec
  /\ SF_vars(HumanDecides)
  /\ SF_vars(GateWake)
  /\ \A c \in Callers : WF_vars(NextModelCall(c))

\* -------------------------------------------------------------------- claims
TypeOK ==
  /\ mode \in {"boot", "headless", "tui"}
  /\ pendingConfirmation \in 0..NumCallers
  /\ options \in 0..NumCallers
  /\ selectedOption \in 0..3
  /\ Len(feedback) <= MaxFeedback
  /\ \A c \in Callers : pc[c] \in {"idle", "docker", "awaiting", "exec", "done"}

InWaitq(c) == \E i \in 1..Len(waitq) : waitq[i] = c

\* C1: at most one confirmation is outstanding and it is the one displayed; a
\* request suspended behind it is neither displayed nor resolved; a request
\* resolved by the human got the decision made on its own dialog; and every
\* awaiting request is either the outstanding one or queued behind one that
\* can still be taken up.
C1_OneConfirmationAtATime ==
  /\ Cardinality({c \in Callers : pc[c] = "awaiting" /\ ~InWaitq(c)}) <= 1
  /\ mode = "tui" => options = pendingConfirmation
  /\ \A c \in Callers :
       /\ InWaitq(c) =>
            /\ pc[c] = "awaiting" /\ options # c /\ pendingConfirmation # c
            /\ ~gateResult[c].made /\ ~hist[c].prompted
       /\ pc[c] = "awaiting" /\ ~InWaitq(c) => pendingConfirmation = c
       /\ gateResult[c].made => gateResult[c].shown = c
       /\ pc[c] = "awaiting" /\ mode = "tui" =>
            \/ options = c
            \/ InWaitq(c) /\ (pendingConfirmation # 0 \/ ~Quiet \/ ENABLED GateWake)

C1_Witness ==
  \E c \in Callers :
    /\ hist[c].waited /\ hist[c].prompted
    /\ gateResult[c].made /\ gateResult[c].shown = c
    /\ \E d \in Callers : d # c /\ pendingConfirmation = d /\ options = d

\* C1, liveness: every request that awaits a confirmation is eventually resolved.
C1_EventuallyResolved ==
  \A c \in Callers : (pc[c] = "awaiting") ~> (pc[c] # "awaiting")

\* C2: the command of a mutating operation runs only after an approval (a
\* covering session flag read by the tool, or an approval returned by the
\* gate); after a rejection the command is never run and the call ends with a
\* failed ToolResult.
C2_ExecutedOnlyAfterApproval ==
  \A c \in Callers :
    /\ requiresConfirmation[c] /\ (pc[c] = "exec" \/ hist[c].executed) =>
         \/ hist[c].covered
         \/ hist[c].approved
    /\ gateResult[c].made /\ ~gateResult[c].confirmed =>
         /\ ~hist[c].executed
         /\ pc[c] = "done"
         /\ ~result[c].success

C2_Witness ==
  \E c \in Callers :
    /\ pc[c] = "done" /\ requiresConfirmation[c] /\ hist[c].executed
    /\ ~hist[c].covered /\ hist[c].prompted
    /\ gateResult[c].made /\ gateResult[c].confirmed

\* C3: a mutating operation that finds its category's flag or the global flag
\* set goes on to run without a confirmation being requested from the human,
\* and in headless mode (global flag set before processing) no operation ever
\* requests one.
C3_FlagsSkipConfirmation ==
  /\ \A c \in Callers :
       hist[c].covered =>
         /\ ~hist[c].prompted /\ ~hist[c].waited
         /\ pc[c] \in {"exec", "done"}
         /\ options # c /\ pendingConfirmation # c
  /\ mode = "headless" =>
       /\ options = 0 /\ pendingConfirmation = 0 /\ waitq = <<>>
       /\ \A c \in Callers : ~hist[c].prompted /\ pc[c] # "awaiting"
       /\ \A c \in Callers :
            requiresConfirmation[c] /\ (pc[c] = "exec" \/ hist[c].executed) =>
              hist[c].covered

C3_Witness ==
  /\ mode = "headless"
  /\ pc[1] = "done" /\ requiresConfirmation[1] /\ tool[1] = "systemctl"
  /\ hist[1].covered /\ hist[1].executed /\ result[1].success

C5_FaultBecomesFailedResult ==
  \A c \in Callers :
    /\ pc[c] \in {"idle", "docker", "awaiting", "exec", "done"}
    /\ pc[c] = "done" /\ hist[c].faulted =>
         /\ ~result[c].success
         /\ result[c].error # <<>>
         /\ toolMessage[c] = result[c].error
    /\ pc[c] = "done" => ENABLED NextModelCall(c)

C5_Witness ==
  \E c \in Callers :
    /\ pc[c] = "done" /\ hist[c].faulted /\ ~hist[c].executed
    /\ tool[c] = "code_execution"
    /\ result[c] = Fail(ToolExecutionError)

\* The human presses Enter on option i of the displayed dialog (0 "Yes",
\* 1 "Yes, and don't ask again this session").
Answered(i) == DialogReturn /\ ~feedbackMode /\ selectedOption = i

\* reset() is called: "/clear", or Shift+Tab switching auto-edit off.
ResetCalled == ClearCommand \/ (ShiftTab /\ autoEditEnabled)

\* Caller c begins a mutating operation: its tool reads the session flags.
ReadsFlags(c) ==
  \/ \E t \in {"systemctl", "apt"} : StartRunCommand(c, t, TRUE)
  \/ DockerAvailable(c)

\* The operation begun by c goes on to run and nothing is put before the human.
NotPrompted(c) ==
  /\ pc'[c] = "exec" /\ ~hist'[c].prompted /\ ~hist'[c].waited
  /\ options' = options /\ pendingConfirmation' = pendingConfirmation
  /\ waitq' = waitq

\* The operation begun by c is held for the human's decision: its request is
\* the displayed one, or is suspended until the gate takes it up; or the request
\* itself faulted and the call ended without running the command.
Prompted(c) ==
  \/ /\ pc'[c] = "awaiting"
     /\ \/ pendingConfirmation' = c /\ hist'[c].prompted /\ (mode = "tui" => options' = c)
        \/ InWaitq(c)' /\ hist'[c].waited /\ ~hist'[c].approved
  \/ pc'[c] = "done" /\ hist'[c].faulted /\ ~hist'[c].executed

\* C19: answering the dialog with approve-and-remember sets the flag of the
\* request's category and changes no other flag; a flag that is set goes back
\* to false only in a step that calls reset(); an operation that begins while
\* its category's flag is set is not prompted; a plain approve leaves every
\* flag as it was (all false), so an operation that begins next is prompted.
C19_RememberedUntilReset ==
  /\ [](options # 0 => sessionFlags = NoFlags)
  /\ [][Answered(1) =>
          /\ sessionFlags' =
               setSessionFlag(sessionFlags, flagOf(category(tool[options])), TRUE)
          /\ Covers(sessionFlags', category(tool[options]))
          /\ ~sessionFlags'.allOperations]_vars
  /\ [][Answered(0) => sessionFlags' = sessionFlags /\ sessionFlags' = NoFlags]_vars
  /\ [][\A cat \in {"bash", "file"} :
          sessionFlags[flagOf(cat)] /\ ~sessionFlags'[flagOf(cat)] => ResetCalled]_vars
  /\ [][\A c \in Callers :
          ReadsFlags(c) =>
            IF sessionFlags[flagOf(category(tool'[c]))]
            THEN NotPrompted(c)
            ELSE sessionFlags = NoFlags => Prompted(c)]_vars

C19_Witness ==
  \E c, d \in Callers :
    /\ c # d
    /\ gateResult[d].made /\ gateResult[d].confirmed /\ gateResult[d].dontAskAgain
    /\ sessionFlags.bashCommands /\ ~sessionFlags.allOperations
    /\ requiresConfirmation[c] /\ hist[c].covered /\ hist[c].executed
    /\ ~hist[c].prompted

\* C20: reset() leaves every session flag false, whatever the flags were;
\* "/clear" calls it, so after it no flag covers any category, every tool asks
\* again, and a mutating operation that begins with the flags cleared is
\* prompted.
C20_ResetClearsEveryFlag ==
  /\ [](/\ resetSession(sessionFlags) = NoFlags
        /\ \A name \in DOMAIN sessionFlags : ~resetSession(sessionFlags)[name])
  /\ [][ClearCommand =>
          /\ sessionFlags' = resetSession(sessionFlags)
          /\ \A cat \in {"bash", "file"} : ~Covers(sessionFlags', cat)
          /\ toolAsks(sessionFlags')]_vars
  /\ [][\A c \in Callers :
          ReadsFlags(c) /\ autoEditEnabled /\ ~sessionFlags.allOperations
                        /\ ~sessionFlags.bashCommands => Prompted(c)]_vars

\* Auto-edit was switched on, "/clear" cleared the flags, and the operation
\* begun afterwards is displayed to the human.
C20_Witness ==
  \E c \in Callers :
    /\ mode = "tui" /\ autoEditEnabled /\ sessionFlags = NoFlags
    /\ requiresConfirmation[c] /\ hist[c].prompted /\ ~hist[c].covered
    /\ pc[c] = "awaiting" /\ options = c

\* C31: in the TUI the auto-edit indicator of the status bar
\* (autoEditEnabled) equals the all-operations session flag in every reachable
\* state, whatever Shift+Tab toggles, "/clear" commands and decisions happened.
C31_IndicatorEqualsFlag ==
  mode = "tui" => autoEditEnabled = sessionFlags.allOperations

\* The displayed request is resolved by one call: the decision is recorded for
\* it and for no other request, none is outstanding and nothing is displayed.
Decided(confirmed, dontAskAgain) ==
  /\ gateResult'[options].made
  /\ gateResult'[options].confirmed = confirmed
  /\ gateResult'[options].dontAskAgain = dontAskAgain
  /\ \A c \in Callers \ {options} : gateResult'[c] = gateResult[c]
  /\ pendingConfirmation' = 0 /\ options' = 0

\* The same request stays displayed and outstanding, undecided.
StaysPending ==
  /\ options' = options /\ pendingConfirmation' = pendingConfirmation
  /\ gateResult' = gateResult /\ pc' = pc /\ waitq' = waitq

\* C32: the displayed dialog is the outstanding, undecided request; Enter on
\* option 1 approves it, on option 2 approves with remember, on option 3
\* rejects, Escape outside feedback mode rejects, each by one call after which
\* no options are displayed; Enter on option 4 and Escape in feedback mode
\* resolve nothing and leave the same request pending; a dialog goes away only
\* in a step that decides its request, and a decision made is not made again.
C32_ResolvedExactlyOnce ==
  /\ [](options # 0 => pendingConfirmation = options /\ ~gateResult[options].made)
  /\ [][Answered(0) => Decided(TRUE, FALSE)]_vars
  /\ [][Answered(1) => Decided(TRUE, TRUE)]_vars
  /\ [][Answered(2) => Decided(FALSE, FALSE)]_vars
  /\ [][DialogEscape /\ ~feedbackMode => Decided(FALSE, FALSE)]_vars
  /\ [][DialogReturn /\ feedbackMode => Decided(FALSE, FALSE)]_vars
  /\ [][Answered(3) => StaysPending /\ feedbackMode']_vars
  /\ [][DialogEscape /\ feedbackMode => StaysPending /\ ~feedbackMode']_vars
  /\ [][options # 0 /\ options' # options =>
          (DialogReturn \/ DialogEscape) /\ gateResult'[options].made]_vars
  /\ [][\A c \in Callers :
          gateResult[c].made => gateResult'[c] \in {gateResult[c], NoDecision}]_vars

\* One request was approved with remember and runs; the next one was
\* rejected with Escape, and nothing is displayed any more.
C32_Witness ==
  \E c, d \in Callers :
    /\ c # d /\ options = 0 /\ pendingConfirmation = 0
    /\ gateResult[c].made /\ gateResult[c].confirmed /\ gateResult[c].shown = c
    /\ gateResult[d].made /\ ~gateResult[d].confirmed /\ gateResult[d].shown = d
    /\ gateResult[d].feedback = CancelledByEscape

\* =========================================================================
\* Part B: one streamed model response
\* =========================================================================
\* Texts of the fragments a provider sends.
Frags == {<<"a">>, <<"b", "c">>}

RECURSIVE Flatten(_)
Flatten(ss) == IF ss = <<>> THEN <<>> ELSE Head(ss) \o Flatten(Tail(ss))

\* A chunk of the provider's stream: a content delta, an argument delta of
\* the tool call with the given index, or the finish_reason chunk.
contentChunk(f) == [kind |-> "content", index |-> 0, frag |-> f]
toolCallChunk(i, f) == [kind |-> "tool_call", index |-> i, frag |-> f]

Event(type, content, calls) == [type |-> type, content |-> content, toolCalls |-> calls]

chatStream_yieldsTwice(chunk) == <<chunk, chunk>>

\* GrokClient.chatStream: for await (const chunk of stream) { yield chunk }
\* The chunks it yields for one chunk of the provider.
chatStream(chunk) == <<chunk>>

\* ---------------------------------------------- Streaming Response Assembler
\* A tool-call argument delta is appended to the payload of its call index.
accumulate(a, chunk) ==
  IF chunk.kind = "tool_call" THEN [a EXCEPT ![chunk.index] = @ \o chunk.frag] ELSE a

RECURSIVE accumulateAll(_, _)
accumulateAll(a, chunks) ==
  IF chunks = <<>> THEN a
  ELSE accumulateAll(accumulate(a, Head(chunks)), Tail(chunks))

\* One content-delta event per content chunk.
RECURSIVE contentEvents(_)
contentEvents(chunks) ==
  IF chunks = <<>> THEN <<>>
  ELSE (IF Head(chunks).kind = "content"
        THEN <<Event("content", Head(chunks).frag, NoCalls)>>
        ELSE <<>>) \o contentEvents(Tail(chunks))

\* On the terminal signal: a tool-calls event when calls were assembled, with
\* the full payloads, then the done event.
terminalEvents(a) ==
  (IF a # NoCalls THEN <<Event("tool_calls", <<>>, a)>> ELSE <<>>)
    \o <<Event("done", <<>>, NoCalls)>>

\* The stream ended without a terminal signal: an error event, then done.
earlyEndEvents == <<Event("error", <<>>, NoCalls), Event("done", <<>>, NoCalls)>>

\* ------------------------------------------------------------ the callers
isStreamingAfter_ignoresDone(ev, cur) == cur

\* processUserMessage: case "done": chat.setIsStreaming(false)
isStreamingAfter(ev, cur) == IF ev.type = "done" THEN FALSE ELSE cur

\* processUserMessage: the first content delta creates the streaming entry,
\* a tool-calls event with calls clears it.
streamingEntryAfter(ev, cur) ==
  CASE ev.type = "content" /\ ev.content # <<>> -> TRUE
    [] ev.type = "tool_calls" /\ ev.toolCalls # NoCalls -> FALSE
    [] OTHER -> cur

\* /commit-and-push: else if (chunk.type === "done") break
breaksLoop(k, ev) == k = "commit" /\ ev.type = "done"

StartStream(k) ==
  /\ cState = "idle"
  /\ cState' = "looping"
  /\ kind' = k
  /\ isProcessing' = TRUE
  /\ isStreaming' = TRUE
  /\ streamingEntry' = FALSE
  /\ sPhase' = "open"
  /\ UNCHANGED <<nFrag, sent, arrival, acc, outq, events>>

\* processUserMessage(userInput)
SubmitMessage == StartStream("message") /\ UNCHANGED varsA /\ UNCHANGED restS

\* handleDirectCommand("/commit-and-push"), up to its stream loop
CommitAndPush == StartStream("commit") /\ UNCHANGED varsA /\ UNCHANGED restS

\* The assembler is resumed only when the caller asks for the next event, and
\* reads the next chunk only then.
Pulling == cState = "looping" /\ sPhase = "open" /\ outq = <<>>

ContentDelta(f) ==
  /\ Pulling /\ nFrag < MaxFragments
  /\ LET ys == chatStream(contentChunk(f))
     IN /\ acc' = accumulateAll(acc, ys)
        /\ outq' = contentEvents(ys)
  /\ nFrag' = nFrag + 1
  /\ UNCHANGED <<varsA, chatVars, sPhase, sent, arrival, events, cState, kind, streamingEntry>>
  /\ UNCHANGED restS

ToolCallDelta(i, f) ==
  /\ Pulling /\ nFrag < MaxFragments
  /\ LET ys == chatStream(toolCallChunk(i, f))
     IN /\ acc' = accumulateAll(acc, ys)
        /\ outq' = contentEvents(ys)
  /\ sent' = [sent EXCEPT ![i] = Append(@, f)]
  /\ arrival' = Append(arrival, i)
  /\ nFrag' = nFrag + 1
  /\ UNCHANGED <<varsA, chatVars, sPhase, events, cState, kind, streamingEntry>>
  /\ UNCHANGED restS

\* The chunk carrying finish_reason
TerminalSignal ==
  /\ Pulling
  /\ sPhase' = "terminal"
  /\ outq' = terminalEvents(acc)
  /\ UNCHANGED <<varsA, chatVars, nFrag, sent, arrival, acc, events, cState, kind, streamingEntry>>
  /\ UNCHANGED restS

\* The transport closes early, or chatStream throws `Grok API error: ...`
StreamEndsEarly(threw) ==
  /\ Pulling
  /\ sPhase' = IF threw THEN "threw" ELSE "closed"
  /\ outq' = earlyEndEvents
  /\ UNCHANGED <<varsA, chatVars, nFrag, sent, arrival, acc, events, cState, kind, streamingEntry>>
  /\ UNCHANGED restS

\* One iteration of `for await (const chunk of agent.processUserMessageStream(...))`
CallerNext ==
  /\ cState = "looping" /\ outq # <<>>
  /\ LET ev == Head(outq)
     IN /\ events' = Append(events, ev)
        /\ IF kind = "message"
           THEN /\ isStreaming' = isStreamingAfter(ev, isStreaming)
                /\ streamingEntry' = streamingEntryAfter(ev, streamingEntry)
                /\ outq' = Tail(outq)
                /\ UNCHANGED cState
           ELSE /\ cState' = IF breaksLoop(kind, ev) THEN "afterLoop" ELSE cState
                /\ outq' = IF breaksLoop(kind, ev) THEN <<>> ELSE Tail(outq)
                /\ UNCHANGED <<isStreaming, streamingEntry>>
  /\ UNCHANGED <<varsA, isProcessing, sPhase, nFrag, sent, arrival, acc, kind>>
  /\ UNCHANGED restS

\* The generator returned: the loop ends; processUserMessage then calls
\* chat.setIsProcessing(false).
LoopEnds ==
  /\ cState = "looping" /\ outq = <<>> /\ sPhase \in {"terminal", "closed", "threw"}
  /\ IF kind = "message"
     THEN cState' = "finished" /\ isProcessing' = FALSE
     ELSE cState' = "afterLoop" /\ UNCHANGED isProcessing
  /\ UNCHANGED <<varsA, isStreaming, sPhase, nFrag, sent, arrival, acc, outq, events, kind, streamingEntry>>
  /\ UNCHANGED restS

\* /commit-and-push after its loop: commit, push, then both indicators reset
CommitAndPushEnds ==
  /\ cState = "afterLoop"
  /\ cState' = "finished"
  /\ isProcessing' = FALSE
  /\ isStreaming' = FALSE
  /\ UNCHANGED <<varsA, sPhase, nFrag, sent, arrival, acc, outq, events, kind, streamingEntry>>
  /\ UNCHANGED restS

\* The next submission starts from a fresh stream.
NextSubmission ==
  /\ cState = "finished"
  /\ cState' = "idle"
  /\ sPhase' = "none"
  /\ nFrag' = 0
  /\ sent' = NoCalls
  /\ arrival' = <<>>
  /\ acc' = NoCalls
  /\ outq' = <<>>
  /\ events' = <<>>
  /\ kind' = "message"
  /\ streamingEntry' = FALSE
  /\ UNCHANGED <<varsA, chatVars>>
  /\ UNCHANGED restS

NextStream ==
  \/ SubmitMessage
  \/ CommitAndPush
  \/ \E f \in Frags : ContentDelta(f)
  \/ \E i \in Indices, f \in Frags : ToolCallDelta(i, f)
  \/ TerminalSignal
  \/ \E threw \in BOOLEAN : StreamEndsEarly(threw)
  \/ CallerNext
  \/ LoopEnds
  \/ CommitAndPushEnds
  \/ NextSubmission

SpecStream == Init /\ [][NextStream]_vars

\* A response stream is finite (max_tokens, and the client's timeout), and
\* the caller's loop keeps asking for the next event.
StreamEnds == TerminalSignal \/ \E threw \in BOOLEAN : StreamEndsEarly(threw)

FairStream ==
  /\ SpecStream
  /\ WF_vars(StreamEnds)
  /\ WF_vars(CallerNext)
  /\ WF_vars(LoopEnds)
  /\ WF_vars(CommitAndPushEnds)

\* C6: the tool-calls event carries, for each call index, the concatenation of
\* that index's argument fragments in their arrival order, however the
\* fragments of other indices and the content deltas were interleaved.
C6_ArgumentsMergedByIndex ==
  /\ \A i \in Indices : acc[i] = Flatten(sent[i])
  /\ \A k \in 1..Len(events) :
       events[k].type = "tool_calls" =>
         \A i \in Indices : events[k].toolCalls[i] = Flatten(sent[i])
  /\ \A k \in 1..Len(outq) :
       outq[k].type = "tool_calls" =>
         \A i \in Indices : outq[k].toolCalls[i] = Flatten(sent[i])

C6_Witness ==
  /\ arrival = <<1, 2, 1, 2>>
  /\ sent[1] = << <<"a">>, <<"b", "c">> >>
  /\ \E k \in 1..Len(events) :
       /\ events[k].type = "tool_calls"
       /\ events[k].toolCalls[1] = <<"a", "b", "c">>

\* C10: every response stream, the one that ends without a terminal signal
\* included, ends for the caller with a done event (after an error event when
\* the terminal signal was missing); the caller's loop ends and its
\* indicators are reset.
EndsWithDone ==
  /\ events # <<>>
  /\ events[Len(events)].type = "done"
  /\ sPhase # "terminal" =>
       Len(events) >= 2 /\ events[Len(events) - 1].type = "error"

McpArgs == {"p", "q"}

\* What the server answers to a request.
Answer(arg) == <<"result", arg>>

lookup_oldest(map, id) ==
  {e \in map : \A o \in map : e.id <= o.id}

\* The entries of the pending-requests map for a correlation id.
lookup(map, id) == {e \in map : e.id = id}

restM == <<varsA, chatVars, varsS, varsO, varsE, varsF, varsG, varsH, varsI>>

\* Disconnected -> Connecting -> Handshaking -> Ready
McpConnect ==
  /\ mConn = "Disconnected"
  /\ mConn' = "Ready"
  /\ UNCHANGED <<nextId, pendingRequests, toServer, toClient, inv, delivered, restM>>

\* invoke(toolName, args): a fresh correlation id, the frame written, the
\* call awaiting its reply in the pending-requests map.
Invoke(k, a) ==
  /\ mConn = "Ready" /\ inv[k].state = "idle" /\ nextId <= MaxIds
  /\ nextId' = nextId + 1
  /\ pendingRequests' = pendingRequests \cup {[id |-> nextId, invoker |-> k]}
  /\ toServer' = toServer \cup {[id |-> nextId, arg |-> a]}
  /\ inv' = [inv EXCEPT ![k] = [state |-> "awaiting", id |-> nextId, arg |-> a,
                                  result |-> NoInvoke.result]]
  /\ UNCHANGED <<mConn, toClient, delivered, restM>>

\* The server answers any one of the requests it has, in any order.
ServerReplies(req) ==
  /\ req \in toServer
  /\ toServer' = toServer \ {req}
  /\ toClient' = toClient \cup {[id |-> req.id, payload |-> Answer(req.arg)]}
  /\ UNCHANGED <<mConn, nextId, pendingRequests, inv, delivered, restM>>

\* A response frame arrives: it resolves the call awaiting its id; a frame
\* whose id nobody awaits (the call timed out) is dropped.
Receive(resp) ==
  /\ resp \in toClient
  /\ toClient' = toClient \ {resp}
  /\ LET es == lookup(pendingRequests, resp.id)
     IN /\ pendingRequests' = pendingRequests \ es
        /\ inv' = [k \in Invokers |->
                     IF \E e \in es : e.invoker = k
                     THEN [inv[k] EXCEPT !.state = "resolved", !.result = resp]
                     ELSE inv[k]]
        /\ delivered' = IF es # {} THEN Append(delivered, resp.id) ELSE delivered
  /\ UNCHANGED <<mConn, nextId, toServer, restM>>

\* The per-call timeout rejects the call and removes it from the map; the
\* connection stays Ready.
InvokeTimeout(k) ==
  /\ inv[k].state = "awaiting"
  /\ inv' = [inv EXCEPT ![k].state = "rejected"]
  /\ pendingRequests' = {e \in pendingRequests : e.invoker # k}
  /\ UNCHANGED <<mConn, nextId, toServer, toClient, delivered, restM>>

\* The caller takes the outcome of its invoke.
InvokeReturns(k) ==
  /\ inv[k].state \in {"resolved", "rejected"}
  /\ inv' = [inv EXCEPT ![k] = NoInvoke]
  /\ UNCHANGED <<mConn, nextId, pendingRequests, toServer, toClient, delivered, restM>>

\* remove(serverName): the transport is closed, in-flight invokes are rejected.
McpRemove ==
  /\ mConn = "Ready"
  /\ mConn' = "Disconnected"
  /\ pendingRequests' = {}
  /\ toServer' = {}
  /\ toClient' = {}
  /\ inv' = [k \in Invokers |->
               IF inv[k].state = "awaiting" THEN [inv[k] EXCEPT !.state = "rejected"]
               ELSE inv[k]]
  /\ UNCHANGED <<nextId, delivered, restM>>

NextMcp ==
  \/ McpConnect
  \/ \E k \in Invokers, a \in McpArgs : Invoke(k, a)
  \/ \E req \in toServer : ServerReplies(req)
  \/ \E resp \in toClient : Receive(resp)
  \/ \E k \in Invokers : InvokeTimeout(k)
  \/ \E k \in Invokers : InvokeReturns(k)
  \/ McpRemove

SpecMcp == Init /\ [][NextMcp]_vars

\* C7: a response with correlation id X resolves exactly the invoke awaiting
\* X, with the answer to its own request, whatever the order of the
\* responses; an idle invoker can invoke while other invokes are pending.
C7_ResolvedByOwnId ==
  /\ \A k \in Invokers :
       inv[k].state = "resolved" =>
         /\ inv[k].result.id = inv[k].id
         /\ inv[k].result.payload = Answer(inv[k].arg)
  /\ \A k \in Invokers :
       inv[k].state = "awaiting" /\ mConn = "Ready" =>
         \E e \in pendingRequests : e.id = inv[k].id /\ e.invoker = k
  /\ \A e1, e2 \in pendingRequests : e1.id = e2.id => e1 = e2
  /\ \A k \in Invokers :
       mConn = "Ready" /\ inv[k].state = "idle" /\ nextId <= MaxIds =>
         ENABLED Invoke(k, "p")

C7_Witness ==
  /\ delivered = <<2, 1>>
  /\ inv[1].state = "resolved" /\ inv[1].id = 1 /\ inv[1].arg = "p"
  /\ inv[2].state = "resolved" /\ inv[2].id = 2 /\ inv[2].arg = "q"
  /\ inv[1].result.payload = Answer("p")

\* =========================================================================
\* Part D: Agent Orchestrator, one turn after another
\* =========================================================================
Resting == {"Idle", "Done", "Aborted", "Error", "RoundLimit"}

restO == <<varsS, varsM, varsE, varsF, varsG, varsH, varsI>>
gateRest == <<pendingConfirmation, waitq, gateResult, callVars>>
cfgVars == <<maxArg, maxToolRounds>>
menuVars == <<showCommandSuggestions, showModelSelection>>
turnVars == <<oState, rounds, callsLeft, toolRunning, entries, turns, outcome,
              modelCalls, toolInvocations, mutatingInvoked, surfaced>>

Entry(type, note) == [type |-> type, note |-> note]

\* .option("max-tool-rounds", {type: "number", default: 400})
optionValue(arg) == IF arg = NotGiven THEN DefaultMaxToolRounds ELSE arg

configuredMaxToolRounds_ignoresOption(arg) == DefaultMaxToolRounds

\* const maxToolRounds = args.maxToolRounds || 400
configuredMaxToolRounds(arg) ==
  IF optionValue(arg) # 0 THEN optionValue(arg) ELSE DefaultMaxToolRounds

\* processPromptHeadless: the entries of type user, assistant and tool_result
\* become the messages written to the output.
messagesOf(es) ==
  SelectSeq(es, LAMBDA e : e.type \in {"user", "assistant", "tool_result"})

\* The round counter exceeds the configured maximum.
exceeds(r, max) == r > max

abortCheck_unchecked(raised) == FALSE

\* The abort signal as the orchestrator reads it before a model call, before
\* a tool invocation, and when an operation in flight would complete.
abortCheck(raised) == raised

\* ChatInterface useKeyboard, escape: what the key does
escapeAction(suggestions, modelSelection, processing, streaming) ==
  IF suggestions THEN "closeSuggestions"
  ELSE IF modelSelection THEN "closeModelSelection"
  ELSE IF processing \/ streaming THEN "abort"
  ELSE "none"

\* agent.abortCurrentOperation(): raises the signal of the turn in progress
abortCurrentOperation(raised, state) == raised \/ state \notin Resting

\* The turn's indicators after it ended (the TUI's processUserMessage loop)
TurnIndicatorsReset ==
  /\ isProcessing' = FALSE
  /\ isStreaming' = FALSE

\* index.ts: startTUI(agent) with the agent built from the arguments.  The
\* interactive runs are explored with an explicit --max-tool-rounds; the
\* default is explored in headless mode, which runs one turn.
RunTUI(arg, n) ==
  /\ mode = "boot"
  /\ mode' = "tui"
  /\ nCalls' = n
  /\ maxArg' = arg
  /\ maxToolRounds' = configuredMaxToolRounds(arg)
  /\ autoEditEnabled' = sessionFlags.allOperations
  /\ UNCHANGED <<sessionFlags, options, selectedOption, feedbackMode, feedback, gateRest,
                 chatVars, turnVars, abortRaised, printed, menuVars, restO>>

\* index.ts: processPromptHeadless(prompt, ..., maxToolRounds)
RunHeadless(arg, n) ==
  /\ mode = "boot"
  /\ mode' = "headless"
  /\ nCalls' = n
  /\ maxArg' = arg
  /\ maxToolRounds' = configuredMaxToolRounds(arg)
  /\ sessionFlags' = headlessFlags(sessionFlags)
  /\ UNCHANGED <<uiVars, gateRest, chatVars, turnVars, abortRaised, printed, menuVars, restO>>

\* A user message starts a turn: Idle -> Requesting (the first model call).
SubmitTurn ==
  /\ oState \in Resting
  /\ \/ mode = "headless" /\ oState = "Idle"
     \/ /\ mode = "tui" /\ options = 0
        /\ ~showCommandSuggestions /\ ~showModelSelection
        /\ turns < MaxTurns
  /\ turns' = turns + 1
  /\ entries' = Append(entries, Entry("user", ""))
  /\ oState' = "Requesting"
  /\ rounds' = 0
  /\ callsLeft' = 0
  /\ toolRunning' = FALSE
  /\ abortRaised' = FALSE
  /\ outcome' = "none"
  /\ modelCalls' = 1
  /\ toolInvocations' = 0
  /\ mutatingInvoked' = FALSE
  /\ surfaced' = FALSE
  /\ isProcessing' = (mode = "tui")
  /\ isStreaming' = (mode = "tui")
  /\ UNCHANGED <<varsA, cfgVars, nCalls, printed, menuVars, restO>>

\* The assistant entry of a model response: it carries the tool-call
\* requests when the model asks for tools.
assistantEntry(wantsTools) ==
  IF wantsTools THEN Entry("assistant", "tool_calls") ELSE Entry("assistant", "")

\* Requesting -> Streaming
ModelResponds ==
  /\ oState = "Requesting" /\ ~abortCheck(abortRaised)
  /\ oState' = "Streaming"
  /\ UNCHANGED <<varsA, chatVars, cfgVars, rounds, nCalls, callsLeft, toolRunning,
                 abortRaised, entries, turns, outcome, printed, modelCalls, toolInvocations, mutatingInvoked, surfaced,
                 menuVars, restO>>

\* Streaming -> ToolRound | Done
StreamCompletes(wantsTools) ==
  /\ oState = "Streaming" /\ ~abortCheck(abortRaised)
  /\ entries' = Append(entries, assistantEntry(wantsTools))
  /\ IF wantsTools
     THEN /\ oState' = "ToolRound"
          /\ callsLeft' = nCalls
          /\ UNCHANGED <<outcome, chatVars>>
     ELSE /\ oState' = "Done"
          /\ outcome' = "done"
          /\ TurnIndicatorsReset
          /\ UNCHANGED callsLeft
  /\ UNCHANGED <<varsA, cfgVars, rounds, nCalls, toolRunning, abortRaised, printed,
                 modelCalls, toolInvocations, mutatingInvoked, surfaced, turns, menuVars, restO>>

\* A model-API error ends the turn; the conversation is kept.
ModelApiError ==
  /\ oState \in {"Requesting", "Streaming"} /\ ~abortCheck(abortRaised)
  /\ entries' = Append(entries, Entry("assistant", "error"))
  /\ oState' = "Error"
  /\ outcome' = "error"
  /\ TurnIndicatorsReset
  /\ UNCHANGED <<varsA, cfgVars, rounds, nCalls, callsLeft, toolRunning, abortRaised,
                 printed, modelCalls, toolInvocations, mutatingInvoked, surfaced, turns, menuVars, restO>>

\* The tools the model may call: DiskTool runs its command without asking,
\* the mutating tools ask unless a session flag covers them.
OrchTools == {"disk"} \cup Tools

mutating(t) == t \in Tools

surfaces_everyTool(t, flags) == toolAsks(flags)

\* A confirmation is surfaced for a mutating tool that no flag covers.
surfaces(t, flags) == mutating(t) /\ toolAsks(flags)

\* The next tool call of the round is handed to the dispatcher.  Mutating
\* tools are explored in the first turn of the runs with an explicit
\* --max-tool-rounds.
InvokeTool(t) ==
  /\ oState = "ToolRound" /\ callsLeft > 0 /\ ~toolRunning
  /\ ~abortCheck(abortRaised)
  /\ mutating(t) => maxArg # NotGiven /\ turns = 1
  /\ toolRunning' = TRUE
  /\ toolInvocations' = toolInvocations + 1
  /\ mutatingInvoked' = (mutatingInvoked \/ mutating(t))
  /\ surfaced' = (surfaced \/ surfaces(t, sessionFlags))
  /\ UNCHANGED <<varsA, chatVars, cfgVars, oState, rounds, nCalls, callsLeft, abortRaised,
                 entries, turns, outcome, printed, modelCalls, menuVars, restO>>

\* The dispatcher returned the ToolResult, which is appended.
ToolReturns ==
  /\ oState = "ToolRound" /\ toolRunning /\ ~abortCheck(abortRaised)
  /\ toolRunning' = FALSE
  /\ callsLeft' = callsLeft - 1
  /\ entries' = Append(entries, Entry("tool_result", ""))
  /\ UNCHANGED <<varsA, chatVars, cfgVars, oState, rounds, nCalls, abortRaised, outcome,
                 printed, modelCalls, toolInvocations, mutatingInvoked, surfaced, turns, menuVars, restO>>

\* The tool results are fed back: the round counter is incremented, and the
\* next model call is made unless the counter exceeds the maximum.
FeedBack ==
  /\ oState = "ToolRound" /\ callsLeft = 0 /\ ~toolRunning
  /\ ~abortCheck(abortRaised)
  /\ rounds' = rounds + 1
  /\ IF exceeds(rounds + 1, maxToolRounds)
     THEN /\ oState' = "RoundLimit"
          /\ outcome' = "round_limit"
          /\ entries' = Append(entries, Entry("assistant", "round_limit"))
          /\ TurnIndicatorsReset
          /\ UNCHANGED modelCalls
     ELSE /\ oState' = "Requesting"
          /\ modelCalls' = modelCalls + 1
          /\ UNCHANGED <<outcome, entries, chatVars>>
  /\ UNCHANGED <<varsA, cfgVars, nCalls, callsLeft, toolRunning, abortRaised, printed,
                 toolInvocations, mutatingInvoked, surfaced, turns, menuVars, restO>>

\* The raised signal is seen: the operation in flight is discarded.
ObserveAbort ==
  /\ oState \notin Resting /\ abortCheck(abortRaised)
  /\ oState' = "Aborted"
  /\ outcome' = "aborted"
  /\ toolRunning' = FALSE
  /\ callsLeft' = 0
  /\ UNCHANGED <<varsA, chatVars, cfgVars, rounds, nCalls, abortRaised, entries, turns, printed,
                 modelCalls, toolInvocations, mutatingInvoked, surfaced, menuVars, restO>>

\* processPromptHeadless: the messages are written and the process ends.
HeadlessExit ==
  /\ mode = "headless" /\ oState \in Resting \ {"Idle"}
  /\ printed' = messagesOf(entries)
  /\ mode' = "exited"
  /\ UNCHANGED <<sessionFlags, uiVars, gateRest, chatVars, cfgVars, nCalls, turnVars,
                 abortRaised, menuVars, restO>>

\* ChatInterface useKeyboard: Escape, handled only while no dialog is displayed
EscapeKey ==
  /\ mode = "tui" /\ options = 0
  /\ LET a == escapeAction(showCommandSuggestions, showModelSelection,
                           isProcessing, isStreaming)
     IN /\ a # "none"
        /\ showCommandSuggestions' = IF a = "closeSuggestions" THEN FALSE ELSE showCommandSuggestions
        /\ showModelSelection' = IF a = "closeModelSelection" THEN FALSE ELSE showModelSelection
        /\ abortRaised' = IF a = "abort" THEN abortCurrentOperation(abortRaised, oState)
                          ELSE abortRaised
        /\ isProcessing' = IF a = "abort" THEN FALSE ELSE isProcessing
        /\ isStreaming' = IF a = "abort" THEN FALSE ELSE isStreaming
  /\ UNCHANGED <<varsA, cfgVars, nCalls, turnVars, printed, restO>>

\* The input starts with "/": the command suggestions are shown.
OpenCommandSuggestions ==
  /\ mode = "tui" /\ options = 0 /\ ~showCommandSuggestions
  /\ showCommandSuggestions' = TRUE
  /\ UNCHANGED <<varsA, chatVars, cfgVars, nCalls, turnVars, abortRaised, printed,
                 showModelSelection, restO>>

\* "/models": the model selection is shown.
OpenModelSelection ==
  /\ mode = "tui" /\ options = 0 /\ ~showModelSelection /\ ~showCommandSuggestions
  /\ showModelSelection' = TRUE
  /\ UNCHANGED <<varsA, chatVars, cfgVars, nCalls, turnVars, abortRaised, printed,
                 showCommandSuggestions, restO>>

NextOrch ==
  \/ \E arg \in 1..MaxRoundsArg, n \in 1..MaxToolCalls : RunTUI(arg, n)
  \/ \E arg \in {NotGiven} \cup (0..MaxRoundsArg), n \in 1..MaxToolCalls : RunHeadless(arg, n)
  \/ SubmitTurn
  \/ ModelResponds
  \/ \E wantsTools \in BOOLEAN : StreamCompletes(wantsTools)
  \/ ModelApiError
  \/ \E t \in OrchTools : InvokeTool(t)
  \/ ToolReturns
  \/ FeedBack
  \/ ObserveAbort
  \/ HeadlessExit
  \/ EscapeKey
  \/ OpenCommandSuggestions
  \/ OpenModelSelection

SpecOrch == Init /\ [][NextOrch]_vars

\* The model API answers or fails (the client's timeout), a tool returns (the
\* tools' timeouts), and the orchestrator takes its own steps.
OrchStep ==
  \/ ModelResponds
  \/ \E wantsTools \in BOOLEAN : StreamCompletes(wantsTools)
  \/ ModelApiError
  \/ \E t \in OrchTools : InvokeTool(t)
  \/ ToolReturns
  \/ FeedBack
  \/ ObserveAbort

FairOrch == SpecOrch /\ WF_vars(OrchStep)

\* The maximum the command line asks for: the argument, 400 when it is absent
\* (or 0).
RoundLimitOf == IF maxArg \in {NotGiven, 0} THEN DefaultMaxToolRounds ELSE maxArg

IsPrefix(a, b) == Len(a) <= Len(b) /\ SubSeq(b, 1, Len(a)) = a

RoundLimitReported ==
  outcome = "round_limit" =>
    /\ oState = "RoundLimit"
    /\ rounds = RoundLimitOf + 1
    /\ entries[Len(entries)] = Entry("assistant", "round_limit")
    /\ mode = "tui" =>
         /\ ~isProcessing /\ ~isStreaming
         /\ (~showCommandSuggestions /\ ~showModelSelection
               /\ turns < MaxTurns) => ENABLED SubmitTurn
    /\ mode = "headless" => ENABLED HeadlessExit
    /\ mode = "exited" => printed = entries

\* C8: the loop of a turn always ends; the round counter never passes the
\* configured maximum (400 by default) by more than the round that exceeds
\* it, at which point the turn ends with the reported round-limit outcome;
\* no step changes an entry already in the conversation, and after the round
\* limit a further turn can be started.
C8_RoundLimitTerminates ==
  /\ [](mode # "boot" => rounds <= RoundLimitOf + 1 /\ modelCalls <= RoundLimitOf + 1)
  /\ []RoundLimitReported
  /\ [][IsPrefix(entries, entries')]_vars
  /\ (oState \notin Resting) ~> (oState \in Resting)

C8_Witness ==
  /\ outcome = "round_limit" /\ oState = "RoundLimit"
  /\ maxArg = NotGiven /\ rounds = DefaultMaxToolRounds + 1
  /\ modelCalls = DefaultMaxToolRounds + 1
  /\ mode = "exited"

Aborting == abortRaised /\ oState \notin Resting

\* C9: once the abort signal is raised in a turn, no model call and no tool
\* invocation is started in that turn, no entry of the conversation changes,
\* and the turn moves to Aborted.
C9_AbortStopsTurn ==
  /\ [][Aborting =>
          /\ modelCalls' = modelCalls
          /\ toolInvocations' = toolInvocations
          /\ entries' = entries
          /\ oState' \in {oState, "Aborted"}]_vars
  /\ [](abortRaised /\ oState \in Resting => oState = "Aborted")
  /\ Aborting ~> (oState = "Aborted")

C9_Witness ==
  /\ oState = "Aborted" /\ abortRaised
  /\ nCalls = 2 /\ toolInvocations = 1
  /\ entries = <<Entry("user", ""), Entry("assistant", "tool_calls"), Entry("tool_result", "")>>

\* The entries of the turn in progress or last ended: from its user entry on.
TurnEntries ==
  IF \E i \in 1..Len(entries) : entries[i].type = "user"
  THEN LET i == CHOOSE i \in 1..Len(entries) :
                  /\ entries[i].type = "user"
                  /\ \A j \in (i + 1)..Len(entries) : entries[j].type # "user"
       IN SubSeq(entries, i, Len(entries))
  ELSE <<>>

\* The turn ended with final text after one round of one non-mutating tool
\* call.
OneToolCallThenText ==
  outcome = "done" /\ rounds = 1 /\ toolInvocations = 1 /\ ~mutatingInvoked

restE == <<varsA, chatVars, varsS, varsM, varsO, varsF, varsG, varsH, varsI>>
hostVars == <<host, exitCode>>
wireVars == <<pendingOf, nextIdOf, atServer, call>>

ConnStates == {"Disconnected", "Connecting", "Handshaking", "Ready", "Disconnecting", "Failed"}

\* The tools a server announces in its tool-list reply; both servers announce
\* a tool named "read".
ToolsOf(s) == IF s = "a" THEN {"read", "b__c"} ELSE {"read", "c"}

\* Server-name prefixing of a discovered tool: `mcp__${server.name}__${tool}`.
namespaced(s, t) == "mcp__" \o s \o "__" \o t

discovered(s) == {[name |-> namespaced(s, t), serverName |-> s] : t \in ToolsOf(s)}

\* The catalog without the tools of one server.
withoutServer(cat, s) == {t \in cat : t.serverName # s}

\* manager.getServers() and manager.getTools()
getServers == {s \in Servers : conn[s] = "Ready"}
getTools == catalog

\* `grok mcp list`: the status line and the tools printed for a server.
displayName(name, s) ==
  LET rests == {t \in ToolsOf(s) : name = "mcp__" \o s \o "__" \o t}
  IN IF rests # {} THEN CHOOSE t \in rests : TRUE ELSE name

listStatus(s) == IF s \in getServers THEN "Connected" ELSE "Disconnected"

listTools(s) ==
  IF s \in getServers
  THEN {displayName(t.name, s) : t \in {u \in getTools : u.serverName = s}}
  ELSE {}

\* The catch block of a `grok mcp` command: the failure is printed and the
\* process exits with status 1.  At agent startup the failure is reported
\* and the process keeps running.
commandCatch_keepsRunning(by, h) == h

commandCatch(by, h) ==
  IF by = "command" THEN [state |-> "exited", code |-> 1] ELSE h

HostNow == [state |-> host, code |-> exitCode]

\* The pending entries of a client's own call.
ownEntry(map, k) == {e \in map : e.client = k}

timeoutRemoves_wholeMap(map, k) == map

\* What the per-call timeout takes out of the pending-requests map.
timeoutRemoves(map, k) == ownEntry(map, k)

\* Every call awaiting a reply on server s is rejected.
rejectInFlight_none(calls, s, why) == calls

rejectInFlight(calls, s, why) ==
  [k \in Clients |->
     IF calls[k].state = "awaiting" /\ calls[k].server = s
     THEN [calls[k] EXCEPT !.state = "rejected", !.reason = why]
     ELSE calls[k]]

mayInvoke_whileHandshaking(state) == state \in {"Handshaking", "Ready"}

\* invoke is accepted only on a Ready connection.
mayInvoke(state) == state = "Ready"

\* addServer(config) begins: Disconnected -> Connecting.
beginConnect(s, by) ==
  /\ host = "running"
  /\ conn[s] = "Disconnected"
  /\ conn' = [conn EXCEPT ![s] = "Connecting"]
  /\ addedBy' = [addedBy EXCEPT ![s] = by]
  /\ UNCHANGED <<hostVars, hsStep, transportOpen, closedEvent, reported, catalog, wireVars>>

\* Agent startup connects a configured server.
StartupConnect(s) ==
  /\ s \in config
  /\ beginConnect(s, "startup")
  /\ UNCHANGED <<config, restE>>

\* `grok mcp test <name>`: a server that is not configured ends the command
\* with status 1; a configured one is connected.
TestCommand(s) ==
  /\ host = "running"
  /\ IF s \notin config
     THEN /\ host' = "exited" /\ exitCode' = 1
          /\ UNCHANGED <<conn, hsStep, transportOpen, closedEvent, addedBy, reported,
                         catalog, wireVars>>
     ELSE beginConnect(s, "command")
  /\ UNCHANGED <<config, restE>>

\* `grok mcp add <name>`: the server is written to the configuration, then
\* connected.
AddCommand(s) ==
  /\ config' = config \cup {s}
  /\ beginConnect(s, "command")
  /\ UNCHANGED restE

\* Connecting opens the transport; the initialize request is sent.
TransportOpens(s) ==
  /\ host = "running"
  /\ conn[s] = "Connecting"
  /\ conn' = [conn EXCEPT ![s] = "Handshaking"]
  /\ transportOpen' = [transportOpen EXCEPT ![s] = TRUE]
  /\ hsStep' = [hsStep EXCEPT ![s] = "initialize"]
  /\ UNCHANGED <<hostVars, config, closedEvent, addedBy, reported, catalog, wireVars, restE>>

\* The initialize reply arrives; the tool-list discovery request is sent.
InitializeReply(s) ==
  /\ host = "running"
  /\ conn[s] = "Handshaking" /\ hsStep[s] = "initialize"
  /\ hsStep' = [hsStep EXCEPT ![s] = "tools/list"]
  /\ UNCHANGED <<hostVars, config, conn, transportOpen, closedEvent, addedBy, reported,
                 catalog, wireVars, restE>>

\* The tool-list reply arrives: the tools are merged into the catalog under
\* their prefixed names and the connection is Ready.
ToolsListed(s) ==
  /\ host = "running"
  /\ conn[s] = "Handshaking" /\ hsStep[s] = "tools/list"
  /\ conn' = [conn EXCEPT ![s] = "Ready"]
  /\ hsStep' = [hsStep EXCEPT ![s] = "listed"]
  /\ catalog' = catalog \cup discovered(s)
  /\ addedBy' = [addedBy EXCEPT ![s] = "none"]
  /\ UNCHANGED <<hostVars, config, transportOpen, closedEvent, reported, wireVars, restE>>

\* The handshake fails or times out: the connection is Failed and reported;
\* a `grok mcp` command that awaited addServer prints the error and exits.
HandshakeFails(s) ==
  /\ host = "running"
  /\ conn[s] \in {"Connecting", "Handshaking"}
  /\ conn' = [conn EXCEPT ![s] = "Failed"]
  /\ transportOpen' = [transportOpen EXCEPT ![s] = FALSE]
  /\ reported' = reported \cup {s}
  /\ addedBy' = [addedBy EXCEPT ![s] = "none"]
  /\ LET h == commandCatch(addedBy[s], HostNow)
     IN host' = h.state /\ exitCode' = h.code
  /\ UNCHANGED <<config, hsStep, closedEvent, catalog, wireVars, restE>>

\* Correlation ids assigned so far, over all connections.
issued == (nextIdOf["a"] - 1) + (nextIdOf["a__b"] - 1)

\* invoke(toolName, args) by client k on server s: accepted only in Ready,
\* then a fresh correlation id is assigned, the frame is written and the
\* call waits in the pending-requests map; otherwise it is rejected at once.
invokeOn(k, s) ==
  /\ host = "running"
  /\ call[k].state = "idle"
  /\ issued < MaxInvokes
  /\ IF mayInvoke(conn[s])
     THEN /\ nextIdOf' = [nextIdOf EXCEPT ![s] = @ + 1]
          /\ pendingOf' = [pendingOf EXCEPT ![s] = @ \cup {[id |-> nextIdOf[s], client |-> k]}]
          /\ atServer' = [atServer EXCEPT ![s] =
                            IF transportOpen[s] THEN @ \cup {nextIdOf[s]} ELSE @]
          /\ call' = [call EXCEPT ![k] = [state |-> "awaiting", server |-> s,
                                          id |-> nextIdOf[s], reason |-> ""]]
     ELSE /\ call' = [call EXCEPT ![k] = [state |-> "rejected", server |-> s,
                                          id |-> 0, reason |-> "not ready"]]
          /\ UNCHANGED <<pendingOf, nextIdOf, atServer>>
  /\ UNCHANGED <<hostVars, config, conn, hsStep, transportOpen, closedEvent, addedBy,
                 reported, catalog, restE>>

\* A response frame with correlation id `id` arrives from server s: it
\* resolves the call waiting for that id; when no call waits for it (the
\* call timed out) the frame is dropped.
Reply(s, id) ==
  /\ host = "running"
  /\ transportOpen[s] /\ id \in atServer[s]
  /\ atServer' = [atServer EXCEPT ![s] = @ \ {id}]
  /\ LET es == lookup(pendingOf[s], id)
     IN /\ pendingOf' = [pendingOf EXCEPT ![s] = @ \ es]
        /\ call' = [k \in Clients |->
                      IF \E e \in es : e.client = k
                      THEN [call[k] EXCEPT !.state = "resolved"]
                      ELSE call[k]]
  /\ UNCHANGED <<hostVars, config, conn, hsStep, transportOpen, closedEvent, addedBy,
                 reported, catalog, nextIdOf, restE>>

\* The per-call timeout of client k's invoke fires.
CallTimeout(k) ==
  /\ host = "running"
  /\ call[k].state = "awaiting"
  /\ call' = [call EXCEPT ![k].state = "rejected", ![k].reason = "timeout"]
  /\ pendingOf' = [pendingOf EXCEPT ![call[k].server] = @ \ timeoutRemoves(@, k)]
  /\ UNCHANGED <<hostVars, config, conn, hsStep, transportOpen, closedEvent, addedBy,
                 reported, catalog, nextIdOf, atServer, restE>>

\* The caller takes the outcome of its invoke.
CallReturns(k) ==
  /\ host = "running"
  /\ call[k].state \in {"resolved", "rejected"}
  /\ call' = [call EXCEPT ![k] = NoCall]
  /\ UNCHANGED <<hostVars, config, conn, hsStep, transportOpen, closedEvent, addedBy,
                 reported, catalog, pendingOf, nextIdOf, atServer, restE>>

\* `grok mcp remove <name>`: manager.removeServer(name) begins, the
\* connection is Disconnecting.  A transport-closed event that is already
\* queued is handled before a command that arrives after it.
RemoveCommand(s) ==
  /\ host = "running"
  /\ conn[s] = "Ready" /\ ~closedEvent[s]
  /\ conn' = [conn EXCEPT ![s] = "Disconnecting"]
  /\ UNCHANGED <<hostVars, config, hsStep, transportOpen, closedEvent, addedBy, reported,
                 catalog, wireVars, restE>>

\* removeServer completes: the transport is closed, the in-flight invokes
\* are rejected, the server's tools leave the catalog; the command then
\* deletes the server from the configuration.
RemoveCompletes(s) ==
  /\ host = "running"
  /\ conn[s] = "Disconnecting"
  /\ conn' = [conn EXCEPT ![s] = "Disconnected"]
  /\ transportOpen' = [transportOpen EXCEPT ![s] = FALSE]
  /\ hsStep' = [hsStep EXCEPT ![s] = "none"]
  /\ atServer' = [atServer EXCEPT ![s] = {}]
  /\ pendingOf' = [pendingOf EXCEPT ![s] = {}]
  /\ call' = rejectInFlight(call, s, "removed")
  /\ catalog' = withoutServer(catalog, s)
  /\ config' = config \ {s}
  /\ UNCHANGED <<hostVars, closedEvent, addedBy, reported, nextIdOf, restE>>

\* The transport of a Ready connection closes unexpectedly (read failure or
\* subprocess exit): the frames on it are lost and the close is raised as a
\* transport-closed event.
TransportCloses(s) ==
  /\ host = "running"
  /\ conn[s] = "Ready" /\ transportOpen[s]
  /\ transportOpen' = [transportOpen EXCEPT ![s] = FALSE]
  /\ closedEvent' = [closedEvent EXCEPT ![s] = TRUE]
  /\ atServer' = [atServer EXCEPT ![s] = {}]
  /\ UNCHANGED <<hostVars, config, conn, hsStep, addedBy, reported, catalog, pendingOf,
                 nextIdOf, call, restE>>

onClosed_ignored(state) == state

\* The state a transport-closed event maps a connection to.
onClosed(state) == "Failed"

\* The Protocol Client handles the transport-closed event: the connection
\* is Failed and reported, its pending callers are rejected, its tools leave
\* the catalog.
OnTransportClosed(s) ==
  /\ host = "running"
  /\ closedEvent[s]
  /\ closedEvent' = [closedEvent EXCEPT ![s] = FALSE]
  /\ conn' = [conn EXCEPT ![s] = onClosed(@)]
  /\ reported' = reported \cup {s}
  /\ pendingOf' = [pendingOf EXCEPT ![s] = {}]
  /\ call' = rejectInFlight(call, s, "closed")
  /\ catalog' = withoutServer(catalog, s)
  /\ UNCHANGED <<hostVars, config, hsStep, transportOpen, addedBy, nextIdOf, atServer, restE>>

NextConn ==
  \/ \E s \in Servers : StartupConnect(s)
  \/ \E s \in Servers : TestCommand(s)
  \/ \E s \in Servers : AddCommand(s)
  \/ \E s \in Servers : TransportOpens(s)
  \/ \E s \in Servers : InitializeReply(s)
  \/ \E s \in Servers : ToolsListed(s)
  \/ \E s \in Servers : HandshakeFails(s)
  \/ \E k \in Clients, s \in Servers : invokeOn(k, s)
  \/ \E s \in Servers, id \in 1..MaxInvokes : Reply(s, id)
  \/ \E k \in Clients : CallTimeout(k)
  \/ \E k \in Clients : CallReturns(k)
  \/ \E s \in Servers : RemoveCommand(s)
  \/ \E s \in Servers : RemoveCompletes(s)
  \/ \E s \in Servers : TransportCloses(s)
  \/ \E s \in Servers : OnTransportClosed(s)

SpecConn == Init /\ [][NextConn]_vars

\* The Protocol Client's own steps are taken once they can be: a removal
\* completes, a transport-closed event is handled.
FairConn ==
  /\ SpecConn
  /\ \A s \in Servers : WF_vars(RemoveCompletes(s))
  /\ \A s \in Servers : WF_vars(OnTransportClosed(s))

\* ------------------------------------------------------------------ claims
\* The handshake of server s failed: it is Failed without having listed its
\* tools.
HandshakeFailed(s) == conn[s] = "Failed" /\ hsStep[s] # "listed"

\* A step in which the handshake of server s fails.
FailsNow(s) == conn[s] \in {"Connecting", "Handshaking"} /\ conn'[s] = "Failed"

\* Server o is untouched by a step.
Untouched(o) ==
  /\ conn'[o] = conn[o]
  /\ transportOpen'[o] = transportOpen[o]
  /\ pendingOf'[o] = pendingOf[o]
  /\ atServer'[o] = atServer[o]
  /\ {t \in catalog' : t.serverName = o} = {t \in catalog : t.serverName = o}
  /\ \A k \in Clients : call[k].server = o => call'[k] = call[k]

\* A Ready server of a running host answers: a request it holds can be
\* replied to, and an idle client can invoke on it.
ReadyServersAnswer ==
  \A o \in Servers :
    host = "running" /\ conn[o] = "Ready" /\ transportOpen[o] =>
      /\ \A id \in atServer[o] : ENABLED Reply(o, id)
      /\ \A k \in Clients : call[k].state = "idle" /\ issued < MaxInvokes => ENABLED invokeOn(k, o)

FailureContained ==
  \A s \in Servers :
    HandshakeFailed(s) =>
      /\ s \in reported
      /\ withoutServer(catalog, s) = catalog
      /\ listStatus(s) = "Disconnected" /\ listTools(s) = {}

AllowedTransitions ==
  {<<"Disconnected", "Connecting">>, <<"Connecting", "Handshaking">>,
   <<"Handshaking", "Ready">>, <<"Ready", "Disconnecting">>,
   <<"Disconnecting", "Disconnected">>}
  \cup {<<st, "Failed">> : st \in ConnStates \ {"Failed"}}

\* C12: a connection only takes the transitions of the state machine, Failed
\* is terminal, a Ready connection has completed the handshake and listed
\* its tools, and an invoke is accepted only on a Ready connection.
C12_ConnectionStateMachine ==
  /\ [](\A s \in Servers :
          /\ conn[s] \in ConnStates
          /\ conn[s] \in {"Ready", "Disconnecting"} =>
               hsStep[s] = "listed" /\ discovered(s) \subseteq catalog
          /\ pendingOf[s] # {} => conn[s] \in {"Ready", "Disconnecting"})
  /\ [][\A s \in Servers :
          /\ conn'[s] # conn[s] => <<conn[s], conn'[s]>> \in AllowedTransitions
          /\ conn'[s] = "Ready" /\ conn[s] # "Ready" => hsStep[s] = "tools/list"
          /\ \A k \in Clients :
               call[k].state = "idle" /\ call'[k].state # "idle" /\ call'[k].server = s =>
                 IF conn[s] = "Ready"
                 THEN call'[k].state = "awaiting"
                 ELSE call'[k].state = "rejected" /\ pendingOf' = pendingOf]_vars

C12_Witness ==
  /\ conn["a"] = "Disconnected" /\ nextIdOf["a"] = 2
  /\ conn["a__b"] = "Failed"
  /\ call["c1"].state = "rejected" /\ call["c1"].reason = "not ready"
  /\ call["c1"].server = "a"
  /\ call["c2"].state = "rejected" /\ call["c2"].reason = "removed"

\* A step in which the per-call timeout of client k's invoke fires.
TimesOut(k) ==
  call[k].state = "awaiting" /\ call'[k].state = "rejected" /\ call'[k].reason = "timeout"

\* A step in which a response with correlation id `id` arrives from server s.
Arrives(s, id) == id \in atServer[s] /\ id \notin atServer'[s] /\ transportOpen'[s]

InFlightOn(k, s) == call[k].state = "awaiting" /\ call[k].server = s

C15_TransportCloseFailsConnection ==
  /\ [][\A s \in Servers :
          /\ conn[s] = "Ready" /\ conn'[s] = "Ready" /\ transportOpen[s] /\ ~transportOpen'[s] =>
               closedEvent'[s]
          /\ closedEvent[s] /\ ~closedEvent'[s] =>
               /\ conn'[s] = "Failed" /\ s \in reported'
               /\ pendingOf'[s] = {}
               /\ \A k \in Clients : InFlightOn(k, s) =>
                    call'[k].state = "rejected" /\ call'[k].reason = "closed"
               /\ \A o \in Servers \ {s} : Untouched(o)]_vars
  /\ [](\A s \in Servers :
          /\ conn[s] = "Ready" /\ ~transportOpen[s] => closedEvent[s]
          /\ conn[s] = "Failed" => \A k \in Clients : ~InFlightOn(k, s))
  /\ \A s \in Servers :
       closedEvent[s] ~> (conn[s] = "Failed" \/ host = "exited")

C15_Witness ==
  /\ host = "running"
  /\ conn["a"] = "Failed" /\ hsStep["a"] = "listed" /\ "a" \in reported
  /\ call["c1"].state = "rejected" /\ call["c1"].reason = "closed" /\ call["c1"].server = "a"
  /\ call["c2"].state = "rejected" /\ call["c2"].reason = "closed" /\ call["c2"].server = "a"
  /\ conn["a__b"] = "Ready"

\* The merged tool catalog: the built-in tools and the tools of the Ready
\* servers, each under the name the model is given.
mergedCatalog ==
  {[name |-> t, origin |-> "built-in"] : t \in BuiltinTools}
    \cup {[name |-> t.name, origin |-> t.serverName] : t \in getTools}

\* C22: the names in the merged tool catalog are pairwise distinct, every
\* protocol-sourced tool carries the prefix of its own server, and no
\* protocol-sourced tool is named like a built-in tool.
C22_CatalogNamesDistinct ==
  /\ \A x, y \in mergedCatalog : x.name = y.name => x = y
  /\ \A t \in getTools :
       /\ \E u \in ToolsOf(t.serverName) : t.name = namespaced(t.serverName, u)
       /\ t.name \notin BuiltinTools

\* =========================================================================
\* Part F: the TUI's chat history
\* =========================================================================
restF == <<varsA, varsS, varsM, varsO, varsE, varsG, varsH, varsI>>

\* ChatEntry {type, content, isStreaming, toolCalls, toolCall, toolResult};
\* a tool call is known by its id.
ChatEntry(type, content) ==
  [type |-> type, content |-> content, isStreaming |-> FALSE, toolCalls |-> <<>>,
   callId |-> 0, result |-> NoResult]

UserText == <<"list files">>
ChunkText == <<"a">>
Executing == <<"Executing...">>
Success == <<"Success">>
ErrorOccurred == <<"Error occurred">>
StreamError == <<"Error: ", "Grok API error: ", "a">>

\* The results the dispatcher may report for tool call `id`: a success with
\* an output that names the call, or a failure without a text.
OutputOf(id) == <<ToString(id)>>

ResultsOf(id) == {Ok(OutputOf(id)), Fail(<<>>)}

\* chat.addEntry(entry)
addEntry(h, entry) == Append(h, entry)

updateLastEntry_unmarked(h, c) ==
  IF Len(h) = 0 THEN h ELSE [h EXCEPT ![Len(h)] = [@ EXCEPT !.content = @ \o c]]

\* chat.updateLastEntry(updater): the updater of the content chunks
updateLastEntry(h, c) ==
  IF Len(h) = 0 THEN h
  ELSE [h EXCEPT ![Len(h)] =
          IF @.isStreaming THEN [@ EXCEPT !.content = @ \o c] ELSE @]

\* case "content"
onContent(h, hasStreamingEntry, c) ==
  IF ~hasStreamingEntry
  THEN addEntry(h, [ChatEntry("assistant", c) EXCEPT !.isStreaming = TRUE])
  ELSE updateLastEntry(h, c)

\* The ids nextCallId .. nextCallId + n - 1 in order.
FreshIds(from, n) == [i \in 1..n |-> from + i - 1]

RECURSIVE addToolCalls(_, _)
\* chunk.toolCalls.forEach: one tool_call entry per call
addToolCalls(h, ids) ==
  IF ids = <<>> THEN h
  ELSE addToolCalls(addEntry(h, [ChatEntry("tool_call", Executing) EXCEPT !.callId = Head(ids)]),
                    Tail(ids))

\* case "tool_calls"
onToolCalls(h, ids) ==
  addToolCalls([i \in 1..Len(h) |->
                  IF h[i].isStreaming
                  THEN [h[i] EXCEPT !.isStreaming = FALSE, !.toolCalls = ids]
                  ELSE h[i]],
               ids)

\* The content shown for a ToolResult.
resultContent(r) ==
  IF r.success THEN OrElse(r.output, Success) ELSE OrElse(r.error, ErrorOccurred)

matches_anyToolCall(entry, id) == entry.type = "tool_call"

\* entry.type === "tool_call" && entry.toolCall?.id === chunk.toolCall?.id
matches(entry, id) == entry.type = "tool_call" /\ entry.callId = id

\* case "tool_result"
onToolResult(h, id, r) ==
  [i \in 1..Len(h) |->
     IF h[i].isStreaming THEN [h[i] EXCEPT !.isStreaming = FALSE]
     ELSE IF matches(h[i], id)
          THEN [h[i] EXCEPT !.type = "tool_result", !.content = resultContent(r),
                            !.result = r]
          ELSE h[i]]

\* case "done"
onDone(h, hasStreamingEntry) ==
  IF hasStreamingEntry
  THEN [i \in 1..Len(h) |-> IF h[i].isStreaming THEN [h[i] EXCEPT !.isStreaming = FALSE] ELSE h[i]]
  ELSE h

\* processUserMessage(userInput) up to its first await: the user entry is
\* added, the indicators are set, the agent's event stream is requested.
processUserMessage(l) ==
  /\ loop[l].state = "idle"
  /\ \A j \in Loops : j < l => loop[j].state # "idle"
  /\ history' = addEntry(history, ChatEntry("user", UserText))
  /\ isProcessing' = TRUE
  /\ isStreaming' = TRUE
  /\ loop' = [loop EXCEPT ![l] = [state |-> "running", streamingEntry |-> FALSE]]
  /\ turnOf' = [turnOf EXCEPT ![l] = [NoTurn EXCEPT !.phase = "model"]]
  /\ UNCHANGED <<nextCallId, cancelled, restF>>

\* The initial-message effect of ChatInterface, run once when it is mounted.
InitialMessage ==
  /\ \A l \in Loops : loop[l].state = "idle"
  /\ history = <<>>
  /\ processUserMessage(1)

\* useKeyboard, Enter -> handleSubmit() with a non-empty input that is no
\* direct command; the keyboard handler returns early only while a
\* confirmation dialog is displayed.
handleSubmit(l) ==
  /\ options = 0
  /\ processUserMessage(l)

\* The loop of submission l takes the next event of its stream.
Looping(l) == loop[l].state = "running"

\* Content chunks delivered so far, over both submissions.
chunksSoFar == turnOf[1].chunks + turnOf[2].chunks

\* A content chunk of the model's response.
ContentChunk(l) ==
  /\ Looping(l) /\ turnOf[l].phase = "model" /\ chunksSoFar < MaxChunks
  /\ history' = onContent(history, loop[l].streamingEntry, ChunkText)
  /\ loop' = [loop EXCEPT ![l].streamingEntry = TRUE]
  /\ turnOf' = [turnOf EXCEPT
                  ![l].chunks = @ + 1,
                  ![l].message = @ \o ChunkText,
                  ![l].entryAt = IF loop[l].streamingEntry THEN @ ELSE Len(history) + 1]
  /\ UNCHANGED <<chatVars, nextCallId, cancelled, restF>>

\* The tool-calls event of a response that asks for n tool calls, each with
\* a fresh id; MaxToolCalls tool calls are made in one run.
ToolCallsChunk(l, n) ==
  /\ Looping(l) /\ turnOf[l].phase = "model" /\ turnOf[l].rounds < MaxRoundsArg
  /\ nextCallId + n - 1 <= MaxToolCalls
  /\ LET ids == FreshIds(nextCallId, n)
     IN /\ history' = onToolCalls(history, ids)
        /\ turnOf' = [turnOf EXCEPT ![l].phase = "tools",
                                    ![l].outstanding = {ids[i] : i \in 1..n},
                                    ![l].message = <<>>,
                                    ![l].entryAt = 0]
  /\ nextCallId' = nextCallId + n
  /\ loop' = [loop EXCEPT ![l].streamingEntry = FALSE]
  /\ UNCHANGED <<chatVars, cancelled, restF>>

\* The tool-result event of one of the calls of the round, in any order;
\* after the last one the model is called again.
ToolResultChunk(l, id, r) ==
  /\ Looping(l) /\ turnOf[l].phase = "tools" /\ id \in turnOf[l].outstanding
  /\ history' = onToolResult(history, id, r)
  /\ loop' = [loop EXCEPT ![l].streamingEntry = FALSE]
  /\ turnOf' = [turnOf EXCEPT
                  ![l].outstanding = @ \ {id},
                  ![l].phase = IF turnOf[l].outstanding = {id} THEN "model" ELSE "tools",
                  ![l].rounds = IF turnOf[l].outstanding = {id} THEN @ + 1 ELSE @]
  /\ UNCHANGED <<chatVars, nextCallId, cancelled, restF>>

\* The done event.
DoneChunk(l) ==
  /\ Looping(l) /\ turnOf[l].phase = "model"
  /\ history' = onDone(history, loop[l].streamingEntry)
  /\ isStreaming' = FALSE
  /\ turnOf' = [turnOf EXCEPT ![l].phase = "done", ![l].message = <<>>, ![l].entryAt = 0]
  /\ UNCHANGED <<isProcessing, loop, nextCallId, cancelled, restF>>

isProcessingAfter_kept(cur) == cur

\* processUserMessage, after the try/catch: chat.setIsProcessing(false)
isProcessingAfter(cur) == FALSE

\* The stream is exhausted: the loop ends and processUserMessage returns.
LoopReturns(l) ==
  /\ Looping(l) /\ turnOf[l].phase = "done"
  /\ isProcessing' = isProcessingAfter(isProcessing)
  /\ loop' = [loop EXCEPT ![l].state = "ended"]
  /\ UNCHANGED <<isStreaming, history, turnOf, nextCallId, cancelled, restF>>

onError_replacesLast(h) == Append(dropLast(h), ChatEntry("assistant", StreamError))

\* catch (error): chat.addEntry({type: "assistant", content: `Error: ${error.message}`})
onError(h) == addEntry(h, ChatEntry("assistant", StreamError))

\* The stream throws (GrokClient.chatStream rethrows a failure of the model
\* API as "Grok API error: ..."): the catch block adds the error entry.
StreamThrows(l) ==
  /\ Looping(l) /\ turnOf[l].phase \in {"model", "tools"}
  /\ history' = onError(history)
  /\ isStreaming' = FALSE
  /\ isProcessing' = isProcessingAfter(isProcessing)
  /\ loop' = [loop EXCEPT ![l].state = "ended"]
  /\ turnOf' = [turnOf EXCEPT ![l].phase = "threw"]
  /\ UNCHANGED <<nextCallId, cancelled, restF>>

\* useKeyboard, Escape while a turn is processing or streaming and no dialog
\* is displayed: agent.abortCurrentOperation() and the indicators are reset.
\* The aborted turn's stream still ends by itself (done or a throw).
EscapeAbort ==
  /\ options = 0
  /\ isProcessing \/ isStreaming
  /\ isProcessing' = FALSE
  /\ isStreaming' = FALSE
  /\ cancelled' = TRUE
  /\ UNCHANGED <<history, loop, turnOf, nextCallId, restF>>

\* ConfirmationDialog, "No", "No, with feedback" + Enter, or Escape, for a
\* tool call of submission l that waits in the gate: confirmation.reject(...)
\* and the indicators are reset; the call's failed result follows as a
\* tool_result event.
DialogRejects(l) ==
  /\ Looping(l) /\ turnOf[l].phase = "tools"
  /\ isProcessing' = FALSE
  /\ isStreaming' = FALSE
  /\ cancelled' = TRUE
  /\ UNCHANGED <<history, loop, turnOf, nextCallId, restF>>

NextChat ==
  \/ InitialMessage
  \/ \E l \in Loops : handleSubmit(l)
  \/ \E l \in Loops : ContentChunk(l)
  \/ \E l \in Loops, n \in 1..MaxToolCalls : ToolCallsChunk(l, n)
  \/ \E l \in Loops, id \in 1..MaxToolCalls :
       \E r \in ResultsOf(id) : ToolResultChunk(l, id, r)
  \/ \E l \in Loops : DoneChunk(l)
  \/ \E l \in Loops : LoopReturns(l)
  \/ \E l \in Loops : StreamThrows(l)

SpecChat == Init /\ [][NextChat]_vars

\* The chat history with the two cancellations of the keyboard handlers.
NextCancel ==
  \/ NextChat
  \/ EscapeAbort
  \/ \E l \in Loops : DialogRejects(l)

SpecCancel == Init /\ [][NextCancel]_vars

\* ------------------------------------------------------------------ claims
\* The turns whose event stream is being consumed.
InFlight == {l \in Loops : Looping(l)}

\* C17: at most one turn (event stream of the agent) is in flight at a time;
\* a submission made while a turn is processing or streaming starts no
\* second one.
C17_OneTurnInFlight ==
  /\ Cardinality(InFlight) <= 1
  /\ \A l \in Loops : (isProcessing \/ isStreaming) /\ InFlight # {} => ~ENABLED handleSubmit(l)

\* A step in which the tool_result event of call `id` is handled.
ResultHandled(l, id) == id \in turnOf[l].outstanding /\ id \notin turnOf'[l].outstanding

IsToolCall(e, id) == e.type = "tool_call" /\ e.callId = id

Throws(l) == Looping(l) /\ turnOf'[l].phase = "threw"

\* The submission the model may take next: the lowest one not yet made.
NextLoop(l) == loop[l].state = "idle" /\ \A j \in Loops : j < l => loop[j].state # "idle"

\* C23: when the model API call fails the turn ends, the error is reported as
\* one more entry, every entry appended before is kept as it was, and a
\* further user message is accepted afterwards.
C23_ApiErrorKeepsConversation ==
  /\ [][\A l \in Loops :
          Throws(l) =>
            /\ Len(history') = Len(history) + 1
            /\ SubSeq(history', 1, Len(history)) = history
            /\ history'[Len(history')].type = "assistant"
            /\ history'[Len(history')].content = StreamError
            /\ loop'[l].state = "ended"
            /\ ~isProcessing' /\ ~isStreaming']_vars
  /\ [](\A l, k \in Loops :
          turnOf[l].phase = "threw" /\ NextLoop(k) => ENABLED handleSubmit(k))

\* The first turn failed after a streamed text and a tool call; its entries
\* and the error entry are followed by the next user message.
C23_Witness ==
  /\ turnOf[1].phase = "threw" /\ loop[2].state = "running"
  /\ Len(history) = 5
  /\ history[1].type = "user" /\ history[2].type = "assistant"
  /\ history[2].content = ChunkText
  /\ history[3].type = "tool_call"
  /\ history[4].content = StreamError
  /\ history[5].type = "user"

\* The step is a cancellation: Escape, or a rejection in the confirmation
\* dialog.
Cancels == cancelled' /\ UNCHANGED <<history, loop, turnOf, nextCallId>>

\* C24: once no turn is in flight, whether the turns ended with done or with
\* an error and whether or not Escape or a rejection reset the indicators on
\* the way, isProcessing and isStreaming are both false; nothing but a new
\* submission sets either of them.
C24_IndicatorsReset ==
  /\ [](InFlight = {} => ~isProcessing /\ ~isStreaming)
  /\ [][Cancels => ~isProcessing' /\ ~isStreaming']_vars
  /\ [][(~isProcessing /\ isProcessing') \/ (~isStreaming /\ isStreaming')
          => \E l \in Loops : ~Looping(l) /\ Looping(l)']_vars

\* A turn was cancelled while its tool call was outstanding, its stream went
\* on to a throw, and no turn is left in flight.
C24_Witness ==
  /\ InFlight = {} /\ ~isProcessing /\ ~isStreaming
  /\ cancelled
  /\ turnOf[1].phase = "threw" /\ turnOf[1].outstanding # {}
  /\ loop[2].state = "ended" /\ turnOf[2].phase = "done"

\* The step handles one event of the stream of a submission.
StreamEvent ==
  \E l \in Loops : Looping(l) /\ turnOf'[l] # turnOf[l] /\ turnOf'[l].phase # "threw"

\* The step handles a content delta.
ContentEvent == \E l \in Loops : turnOf'[l].chunks > turnOf[l].chunks

Delta(l) == turnOf'[l].chunks > turnOf[l].chunks

\* The step handles the event that ends the message of submission l, after
\* at least one delta: tool_calls or done.
MessageEnds(l) ==
  /\ Looping(l) /\ turnOf[l].phase = "model" /\ turnOf'[l].phase \in {"tools", "done"}
  /\ turnOf[l].message # <<>>

\* C27: the assistant entry of a message is created at its first delta, a
\* delta changes no entry but the one of its own message, and when the
\* message ends the entry's content is the concatenation of all its deltas
\* in arrival order.
C27_ContentIsConcatenation ==
  [][\A l \in Loops :
       /\ Delta(l) /\ turnOf[l].message = <<>> =>
            /\ history' = Append(history, history'[Len(history')])
            /\ history'[Len(history')].type = "assistant"
       /\ Delta(l) =>
            \A i \in 1..Len(history) : i # turnOf'[l].entryAt => history'[i] = history[i]
       /\ MessageEnds(l) =>
            /\ history[turnOf[l].entryAt].type = "assistant"
            /\ history[turnOf[l].entryAt].content = turnOf[l].message
            /\ history'[turnOf[l].entryAt].content = turnOf[l].message]_vars

\* C30: once processUserMessage has returned (no call of it is in progress),
\* however its stream ended, no chat entry is marked as streaming.
C30_NoEntryLeftStreaming ==
  InFlight = {} => \A i \in 1..Len(history) : ~history[i].isStreaming

\* =========================================================================
\* Part G: one operation of a built-in tool
\* =========================================================================
restG == <<varsA, chatVars, varsS, varsM, varsO, varsE, varsF, varsH, varsI>>

\* The cases of each tool's execute() switch; "bogus" falls to its default.
OperationsOf(t) ==
  CASE t = "systemctl" -> {"start", "stop", "restart", "status", "enable", "disable",
                           "is-active", "is-enabled", "bogus"}
    [] t = "apt" -> {"install", "remove", "update", "upgrade", "search", "show", "bogus"}
    [] t = "disk" -> {"usage", "free", "du", "large-files", "cleanup", "bogus"}
    [] t = "network" -> {"ping", "traceroute", "interfaces", "connections", "dns",
                         "speedtest", "bogus"}
    [] t = "code_execution" -> {"run", "test", "bogus"}
    [] OTHER -> {"search"}

\* What getSessionFlags() may return.
AllFlags ==
  [fileOperations : BOOLEAN, bashCommands : BOOLEAN, allOperations : BOOLEAN]

\* stdout, stderr and error.message of a command
Stdouts == {<<>>, <<" ">>, <<"a">>, <<" ", "a">>}
Stderrs == {<<>>, <<"a">>}
Messages == {<<>>, <<"a">>}

argRequired_never(t, op) == FALSE

\* The operations whose handler returns "... is required" without an argument.
argRequired(t, op) ==
  \/ t = "systemctl"
  \/ t = "apt" /\ op \in {"install", "remove", "search", "show"}
  \/ t = "network" /\ op \in {"ping", "traceroute", "dns"}
  \/ t = "code_execution" /\ op \in {"run", "test"}

requiredMessage(t, op) ==
  CASE t = "systemctl" -> <<"Service name is required">>
    [] t = "apt" -> <<"Package name is required">>
    [] t = "network" /\ op = "ping" -> <<"Host is required for ping">>
    [] t = "network" /\ op = "traceroute" -> <<"Host is required for traceroute">>
    [] t = "network" -> <<"Host is required for DNS lookup">>
    [] OTHER -> <<"Code is required">>

unknownOperation(t, op) ==
  CASE t = "systemctl" -> <<"Unknown systemctl operation: ", op>>
    [] t = "apt" -> <<"Unknown apt operation: ", op>>
    [] t = "disk" -> <<"Unknown disk operation: ", op>>
    [] t = "network" -> <<"Unknown network operation: ", op>>
    [] OTHER -> <<"Unknown code execution operation: ", op>>

requiresConfirmationOf_always(t, op) == TRUE

\* runCommand's requiresConfirmation argument (default true; false for status,
\* is-active, is-enabled, search and show); runCode always asks; the
\* runCommand of disk and network has no confirmation at all.
requiresConfirmationOf(t, op) ==
  \/ t = "systemctl" /\ op \in {"start", "stop", "restart", "enable", "disable"}
  \/ t = "apt" /\ op \in {"install", "remove", "update", "upgrade"}
  \/ t = "code_execution" /\ op \in {"run", "test"}

commandOutput_noFallback(t, stdout, stderr) ==
  trim(stdout \o (IF stderr # <<>> THEN <<"\nSTDERR: ">> \o stderr ELSE <<>>))

\* output = stdout + (stderr ? `\nSTDERR: ${stderr}` : ''); output.trim() || '... (no output)'
commandOutput(t, stdout, stderr) ==
  OrElse(trim(stdout \o (IF stderr # <<>> THEN <<"\nSTDERR: ">> \o stderr ELSE <<>>)),
         IF t = "code_execution"
         THEN <<"Code executed successfully (no output)">>
         ELSE CommandOutput)

\* isActive / isEnabled: result.output = `Service ${serviceName} is ${result.output}`
operationOutput(t, op, out) ==
  IF t = "systemctl" /\ op \in {"is-active", "is-enabled"}
  THEN <<"Service ", "a", " is ">> \o out
  ELSE out

\* catch (error) { return {success: false, error: `... failed: ${error.message}`} }
commandFailed(t, message) ==
  Fail((CASE t = "disk" -> <<"Disk command failed: ">>
          [] t = "network" -> <<"Network command failed: ">>
          [] OTHER -> failedMessage(t)) \o message)

CleanupSuggestions == <<"Disk cleanup suggestions:\n">>
SpeedtestMissing == <<"speedtest-cli not installed. Install with: sudo apt install speedtest-cli">>

\* WebSearchTool.search: every return of it
webSearchResult(how, text) ==
  CASE how = "no key" -> Fail(<<"Web search not available. Set TAVILY_API_KEY environment variable to enable.">>)
    [] how = "no query" -> Fail(<<"Search query is required">>)
    [] how = "401" -> Fail(<<"Invalid Tavily API key. Check your TAVILY_API_KEY environment variable.">>)
    [] how = "not ok" -> Fail(<<"Tavily API error (", "status", "): ">> \o text)
    [] how = "ok" -> Ok(<<"**Web Search Results for:** ">> \o text
                            \o (IF text # <<>> THEN <<"## Sources\n\n">> \o text
                                ELSE <<"No results found.\n">>))
    [] how = "timeout" -> Fail(<<"Web search timed out. Try a simpler query.">>)
    [] OTHER -> Fail(<<"Web search failed: ">> \o text)

WebOutcomes == {"no key", "no query", "401", "not ok", "ok", "timeout", "failed"}

Returns(r) ==
  /\ tPc' = "returned"
  /\ tResult' = r

\* After the argument checks: ask first, or run the command.
askOrExec(t, op, flags) ==
  IF requiresConfirmationOf(t, op) /\ toolAsks(flags) THEN "confirming" ELSE "exec"

\* execute(operation, ...args) up to its first await
Execute(t, op, arg, flags) ==
  /\ tPc = "idle"
  /\ tOp' = [tool |-> t, operation |-> op, arg |-> arg]
  /\ tFlags' = flags
  /\ tRan' = FALSE
  /\ CASE t = "web_search" ->
            /\ \E o \in WebOutcomes, text \in Messages : Returns(webSearchResult(o, text))
            /\ tAsked' = FALSE
       [] t = "systemctl" /\ ~arg ->
            Returns(Fail(requiredMessage(t, op))) /\ tAsked' = FALSE
       [] t # "systemctl" /\ op = "bogus" ->
            Returns(Fail(unknownOperation(t, op))) /\ tAsked' = FALSE
       [] t = "systemctl" /\ arg /\ op = "bogus" ->
            Returns(Fail(unknownOperation(t, op))) /\ tAsked' = FALSE
       [] t # "systemctl" /\ op # "bogus" /\ argRequired(t, op) /\ ~arg ->
            /\ \/ Returns(Fail(requiredMessage(t, op)))
               \/ t = "code_execution" /\ Returns(Fail(<<"Language is required">>))
            /\ tAsked' = FALSE
       [] t = "disk" /\ op = "cleanup" ->
            Returns(Ok(CleanupSuggestions)) /\ tAsked' = FALSE
       [] t = "network" /\ op = "speedtest" ->
            /\ \/ Returns(Ok(SpeedtestMissing))
               \/ tPc' = "exec" /\ UNCHANGED tResult
            /\ tAsked' = FALSE
       [] t = "code_execution" /\ op # "bogus" /\ arg ->
            /\ tPc' = "docker"
            /\ UNCHANGED <<tAsked, tResult>>
       [] OTHER ->
            /\ tPc' = askOrExec(t, op, flags)
            /\ tAsked' = (askOrExec(t, op, flags) = "confirming")
            /\ UNCHANGED tResult
  /\ UNCHANGED restG

\* runCode: await execAsync('docker --version')
DockerCheck(ok) ==
  /\ tPc = "docker"
  /\ IF ok
     THEN /\ tPc' = askOrExec(tOp.tool, tOp.operation, tFlags)
          /\ tAsked' = (askOrExec(tOp.tool, tOp.operation, tFlags) = "confirming")
          /\ UNCHANGED tResult
     ELSE Returns(Fail(DockerMissing)) /\ UNCHANGED tAsked
  /\ UNCHANGED <<tOp, tFlags, tRan>>
  /\ UNCHANGED restG

\* requestConfirmation resolves with a ConfirmationResult
ConfirmationReturns(confirmed, fb) ==
  /\ tPc = "confirming"
  /\ LET a == afterConfirmation(tOp.tool, [confirmed |-> confirmed, feedback |-> fb])
     IN IF a.returns
        THEN Returns(a.result)
        ELSE tPc' = "exec" /\ UNCHANGED tResult
  /\ UNCHANGED <<tOp, tFlags, tAsked, tRan>>
  /\ UNCHANGED restG

\* requestConfirmation rejects: runCommand's try block catches it, runCode's
\* call is outside its try block.
ConfirmationThrows(message) ==
  /\ tPc = "confirming"
  /\ IF catchesGateFault(tOp.tool)
     THEN Returns(commandFailed(tOp.tool, message))
     ELSE tPc' = "threw" /\ UNCHANGED tResult
  /\ UNCHANGED <<tOp, tFlags, tAsked, tRan>>
  /\ UNCHANGED restG

\* execAsync of the command resolves with {stdout, stderr}, or rejects
ExecAsync(ok, stdout, stderr, message) ==
  /\ tPc = "exec"
  /\ tRan' = TRUE
  /\ Returns(IF ok
             THEN Ok(operationOutput(tOp.tool, tOp.operation,
                                     commandOutput(tOp.tool, stdout, stderr)))
             ELSE commandFailed(tOp.tool, message))
  /\ UNCHANGED <<tOp, tFlags, tAsked>>
  /\ UNCHANGED restG

\* The caller has the result; the next operation may begin.
OperationEnds ==
  /\ tPc \in {"returned", "threw"}
  /\ tPc' = "idle"
  /\ tOp' = NoOp
  /\ tAsked' = FALSE
  /\ tRan' = FALSE
  /\ tResult' = NoResult
  /\ UNCHANGED tFlags
  /\ UNCHANGED restG

NextTools ==
  \/ \E t \in BuiltinTools : \E op \in OperationsOf(t), arg \in BOOLEAN, flags \in AllFlags :
       Execute(t, op, arg, flags)
  \/ \E ok \in BOOLEAN : DockerCheck(ok)
  \/ \E confirmed \in BOOLEAN, fb \in Messages : ConfirmationReturns(confirmed, fb)
  \/ \E message \in Messages : ConfirmationThrows(message)
  \/ \E ok \in BOOLEAN, stdout \in Stdouts, stderr \in Stderrs, message \in Messages :
       ExecAsync(ok, stdout, stderr, message)
  \/ OperationEnds

SpecTools == Init /\ [][NextTools]_vars

\* C21: every ToolResult a tool operation returns has a non-empty output when
\* it is a success and a non-empty error when it is a failure.
C21_ResultCarriesOutputOrError ==
  tPc = "returned" =>
    /\ tResult.success => tResult.output # <<>>
    /\ ~tResult.success => tResult.error # <<>>

\* A command that printed only white space returned a success.
C21_Witness ==
  /\ tPc = "returned" /\ tRan /\ tOp.tool = "network" /\ tOp.operation = "ping"
  /\ tResult = Ok(CommandOutput)

\* The operations that only read: systemctl status, is-active and is-enabled,
\* apt search and show, and every operation of disk and network.
ReadOnly(o) ==
  \/ o.tool = "systemctl" /\ o.operation \in {"status", "is-active", "is-enabled"}
  \/ o.tool = "apt" /\ o.operation \in {"search", "show"}
  \/ o.tool \in {"disk", "network"}

\* C29: a read-only operation never requests a confirmation, whatever the
\* session flags are: it is never waiting in the gate and requestConfirmation
\* was never called for it.
C29_ReadOnlyNeverAsks ==
  ReadOnly(tOp) => ~tAsked /\ tPc # "confirming"

\* systemctl status ran its command and returned although no flag is set.
C29_Witness ==
  /\ tOp = [tool |-> "systemctl", operation |-> "status", arg |-> TRUE]
  /\ tFlags = NoFlags
  /\ tPc = "returned" /\ tRan /\ ~tAsked /\ tResult.success

\* The call o has invalid arguments: systemctl with an empty service name or
\* an operation it does not support; apt install, remove, search or show with
\* an empty package name, or an operation apt does not support.
InvalidArguments(o) ==
  \/ o.tool = "systemctl" /\ (~o.arg \/ o.operation = "bogus")
  \/ o.tool = "apt" /\ o.operation \in {"install", "remove", "search", "show"} /\ ~o.arg
  \/ o.tool = "apt" /\ o.operation = "bogus"

\* C38: a systemctl or apt call with invalid arguments has returned by the
\* time execute() first yields, with success = false and the message that
\* names the fault; no confirmation was requested for it and no command was
\* run, whatever the session flags are.
C38_InvalidArgumentsRejected ==
  InvalidArguments(tOp) =>
    /\ tPc = "returned" /\ ~tAsked /\ ~tRan
    /\ ~tResult.success /\ tResult.output = <<>>
    /\ tResult.error \in {requiredMessage(tOp.tool, tOp.operation),
                          unknownOperation(tOp.tool, tOp.operation)}

\* apt install without a package name returned the failure although no flag
\* is set, where a valid install would have asked.
C38_Witness ==
  /\ tOp = [tool |-> "apt", operation |-> "install", arg |-> FALSE]
  /\ tFlags = NoFlags /\ requiresConfirmationOf(tOp.tool, tOp.operation)
  /\ tPc = "returned" /\ ~tResult.success
  /\ tResult.error = <<"Package name is required">>

\* =========================================================================
\* Part H: the input line and the main keyboard handler of the TUI
\* =========================================================================
restH == <<varsS, varsM, varsE, varsF, varsG, varsI>>

\* What a key press leaves alone in parts A, D and F.
keyRestA == <<mode, pendingConfirmation, waitq, gateResult, selectedOption, feedbackMode,
              feedback, callVars>>
keyRestO == <<oState, maxArg, maxToolRounds, rounds, nCalls, callsLeft, toolRunning,
              abortRaised, entries, turns, outcome, printed, modelCalls, toolInvocations,
              mutatingInvoked, surfaced>>

\* The characters typed; "\\x1b" is the raw sequence of Escape.  A text is a
\* sequence of characters.  The chat entries that the commands add are the
\* subject of Part F and are left out here.
KeyChars == {"/", "m"}

\* The commands, abbreviated to "/" and one letter each: /help, /clear,
\* /models, /commit-and-push, /exit.
commandSuggestions == << <<"/", "h">>, <<"/", "c">>, <<"/", "m">>, <<"/", "p">>, <<"/", "x">> >>

\* loadModelConfig()
availableModels == <<"grok-1", "grok-2">>

Key(name, ctrl, shift, sequence) ==
  [name |-> name, ctrl |-> ctrl, shift |-> shift, meta |-> FALSE, sequence |-> sequence]

\* The key presses of the terminal.
Keys ==
  {Key(ch, FALSE, FALSE, <<ch>>) : ch \in KeyChars}
    \cup {Key(n, TRUE, FALSE, <<>>) : n \in {"c", "a", "e", "d", "k", "u", "w", "left", "right",
                                             "backspace", "delete"}}
    \cup {Key(n, FALSE, FALSE, <<>>) : n \in {"return", "up", "down", "left", "right",
                                              "backspace", "delete"}}
    \cup {Key("tab", FALSE, TRUE, <<>>), Key("tab", FALSE, FALSE, <<"\t">>),
          Key("escape", FALSE, FALSE, <<"\\x1b">>),
          [Key("escape", FALSE, FALSE, <<"\\x1b">>) EXCEPT !.meta = TRUE]}

\* The keys pressed in the runs explored: typing, Backspace, Enter,
\* Up, Down, Escape (reported with meta), Shift+Tab and Ctrl+C.
PressedKeys ==
  {key \in Keys :
     \/ key.name \in KeyChars \cup {"return", "up", "down"}
     \/ key.name = "tab" /\ key.shift
     \/ key.name = "escape" /\ key.meta
     \/ key.name = "backspace" /\ ~key.ctrl
     \/ key.name = "c"}

Lesser(a, b) == IF a < b THEN a ELSE b
Greater(a, b) == IF a < b THEN b ELSE a

\* text.slice(a, b)
slice(text, a, b) == SubSeq(text, Lesser(a, Len(text)) + 1, Lesser(b, Len(text)))

\* text.startsWith("/")
startsWithSlash(text) == text # <<>> /\ text[1] = "/"

\* ------------------------------------------------------------ text-utils
insertText(text, pos, t) ==
  [text |-> slice(text, 0, pos) \o t \o slice(text, pos, Len(text)),
   position |-> pos + Len(t)]

deleteCharBefore(text, pos) ==
  IF pos > 0
  THEN [text |-> slice(text, 0, pos - 1) \o slice(text, pos, Len(text)), position |-> pos - 1]
  ELSE [text |-> text, position |-> pos]

deleteCharAfter(text, pos) ==
  [text |-> slice(text, 0, pos) \o slice(text, pos + 1, Len(text)), position |-> pos]

\* The word boundary before and after the cursor: some position on that side.
moveToPreviousWord(text, pos, w) == Lesser(w, pos)
moveToNextWord(text, pos, w) == Lesser(Greater(w, pos), Greater(pos, Len(text)))

deleteWordBefore(text, pos, w) ==
  [text |-> slice(text, 0, moveToPreviousWord(text, pos, w)) \o slice(text, pos, Len(text)),
   position |-> moveToPreviousWord(text, pos, w)]

deleteWordAfter(text, pos, w) ==
  [text |-> slice(text, 0, pos) \o slice(text, moveToNextWord(text, pos, w), Len(text)),
   position |-> pos]

\* The texts have one line.
moveToLineStart(text, pos) == 0
moveToLineEnd(text, pos) == Greater(pos, Len(text))

\* ---------------------------------------------------------- InputProvider
\* setInput(text), with the effect that follows a change of the input:
\* the command suggestions are shown exactly when it starts with "/".
setInput(st, text) ==
  IF text = st.input THEN st
  ELSE [st EXCEPT !.input = text,
                  !.showCommandSuggestions = startsWithSlash(text),
                  !.selectedCommandIndex = 0]

clearInput(st) ==
  [setInput(st, <<>>) EXCEPT !.cursorPosition = 0, !.historyIndex = -1, !.originalInput = <<>>]

insertAtCursor(st, text) ==
  LET r == insertText(st.input, st.cursorPosition, text)
  IN [setInput(st, r.text) EXCEPT !.cursorPosition = r.position, !.originalInput = r.text,
                                  !.historyIndex = -1]

edited(st, r) ==
  [setInput(st, r.text) EXCEPT !.cursorPosition = r.position, !.originalInput = r.text]

handleBackspace(st, ctrl, w) ==
  edited(st, IF ctrl THEN deleteWordBefore(st.input, st.cursorPosition, w)
             ELSE deleteCharBefore(st.input, st.cursorPosition))

handleDelete(st, ctrl, w) ==
  edited(st, IF ctrl THEN deleteWordAfter(st.input, st.cursorPosition, w)
             ELSE deleteCharAfter(st.input, st.cursorPosition))

handleLeft(st, ctrl, w) ==
  [st EXCEPT !.cursorPosition =
     IF ctrl THEN moveToPreviousWord(st.input, st.cursorPosition, w)
     ELSE Greater(0, st.cursorPosition - 1)]

handleRight_unclamped(st, ctrl, w) ==
  [st EXCEPT !.cursorPosition = @ + 1]

handleRight(st, ctrl, w) ==
  [st EXCEPT !.cursorPosition =
     IF ctrl THEN moveToNextWord(st.input, st.cursorPosition, w)
     ELSE Lesser(Len(st.input), st.cursorPosition + 1)]

\* The input and cursor after the history index moved to i (0-based).
recalled(st, i) ==
  LET newInput == st.inputHistory[i + 1]
  IN [setInput([st EXCEPT !.historyIndex = i], newInput) EXCEPT
        !.cursorPosition = Len(newInput)]

handleUp(st) ==
  IF Len(st.inputHistory) = 0 THEN st
  ELSE IF st.historyIndex = -1
       THEN recalled([st EXCEPT !.originalInput = st.input], Len(st.inputHistory) - 1)
       ELSE IF st.historyIndex > 0 THEN recalled(st, st.historyIndex - 1)
            ELSE st

handleDown_forgetsOriginal(st) ==
  IF st.historyIndex = -1 THEN st
  ELSE IF st.historyIndex < Len(st.inputHistory) - 1
       THEN recalled(st, st.historyIndex + 1)
       ELSE [setInput([st EXCEPT !.historyIndex = -1], <<>>) EXCEPT !.cursorPosition = 0]

handleDown(st) ==
  IF st.historyIndex = -1 THEN st
  ELSE IF st.historyIndex < Len(st.inputHistory) - 1
       THEN recalled(st, st.historyIndex + 1)
       ELSE [setInput([st EXCEPT !.historyIndex = -1], st.originalInput) EXCEPT
               !.cursorPosition = Len(st.originalInput)]

handleHome(st) == [st EXCEPT !.cursorPosition = 0]
handleEnd(st) == [st EXCEPT !.cursorPosition = Len(st.input)]

handleKillLine(st) ==
  LET newText == slice(st.input, 0, st.cursorPosition)
                   \o slice(st.input, moveToLineEnd(st.input, st.cursorPosition), Len(st.input))
  IN [setInput(st, newText) EXCEPT !.originalInput = newText]

handleKillLineBack(st) ==
  LET lineStart == moveToLineStart(st.input, st.cursorPosition)
      newText == slice(st.input, 0, lineStart) \o slice(st.input, st.cursorPosition, Len(st.input))
  IN [setInput(st, newText) EXCEPT !.cursorPosition = lineStart, !.originalInput = newText]

handleKillWord(st, w) == edited(st, deleteWordBefore(st.input, st.cursorPosition, w))

addToHistory_keepsBlank(st, text) ==
  [st EXCEPT !.inputHistory = IF @ = <<>> \/ @[Len(@)] # text THEN Append(@, text) ELSE @,
             !.historyIndex = -1,
             !.originalInput = <<>>]

addToHistory(st, text) ==
  [st EXCEPT !.inputHistory =
               IF trim(text) # <<>> /\ (@ = <<>> \/ @[Len(@)] # text) THEN Append(@, text) ELSE @,
             !.historyIndex = -1,
             !.originalInput = <<>>]

\* ---------------------------------------------------------- ChatInterface
\* filterCommandSuggestions(commandSuggestions, input)
filterCommandSuggestions(suggestions, text) ==
  SelectSeq(suggestions, LAMBDA s : IsPrefix(text, s))

\* processUserMessage(userInput) up to its first await
startMessage(st, text) ==
  [clearInput([st EXCEPT !.isProcessing = TRUE])
     EXCEPT !.isStreaming = TRUE, !.turnsInFlight = @ + 1]

\* handleDirectCommand(input) up to its first await, and processUserMessage
\* when it is no direct command.
handleDirectCommand(st, t) ==
  CASE t = <<"/", "c">> ->
         clearInput([st EXCEPT !.isProcessing = FALSE, !.isStreaming = FALSE,
                               !.sessionFlags = resetSession(@)])
    [] t = <<"/", "h">> -> clearInput(st)
    [] t = <<"/", "x">> -> [st EXCEPT !.exited = TRUE]
    [] t = <<"/", "m">> ->
         clearInput([st EXCEPT !.showModelSelection = TRUE, !.selectedModelIndex = 0])
    [] t = <<"/", "p">> ->
         [st EXCEPT !.isProcessing = TRUE, !.isStreaming = TRUE, !.committing = @ + 1]
    [] OTHER -> startMessage(st, t)

\* handleSubmit()
submitInput(st) ==
  LET userInput == trim(st.input)
  IN IF userInput # <<>>
     THEN handleDirectCommand(addToHistory(st, userInput), userInput)
     ELSE st

wrapUp(i, n) == IF i = 0 THEN n - 1 ELSE i - 1
wrapDown_noWrap(i, n) == i + 1

\* (prev + 1) % length
wrapDown(i, n) == (i + 1) % n

ignoresKeys_never(opts) == FALSE

\* if (confirmation.options()) return
ignoresKeys(opts) == opts # 0

\* Enter and everything after it in the handler.
editingKey(st, key, w) ==
  CASE key.name = "return" -> submitInput(st)
    [] key.name = "up" /\ ~key.ctrl -> handleUp(st)
    [] key.name = "down" /\ ~key.ctrl -> handleDown(st)
    [] key.name = "left" -> handleLeft(st, key.ctrl, w)
    [] key.name = "right" -> handleRight(st, key.ctrl, w)
    [] key.ctrl /\ key.name = "a" -> handleHome(st)
    [] key.ctrl /\ key.name = "e" -> handleEnd(st)
    [] key.name = "backspace" -> handleBackspace(st, key.ctrl, w)
    [] key.name = "delete" \/ (key.ctrl /\ key.name = "d") -> handleDelete(st, key.ctrl, w)
    [] key.ctrl /\ key.name = "k" -> handleKillLine(st)
    [] key.ctrl /\ key.name = "u" -> handleKillLineBack(st)
    [] key.ctrl /\ key.name = "w" -> handleKillWord(st, w)
    [] OTHER -> IF key.sequence # <<>> /\ ~key.ctrl /\ ~key.meta
                THEN insertAtCursor(st, key.sequence)
                ELSE st

\* The model-selection navigation and everything after it.
modelKey(st, key, w) ==
  IF st.showModelSelection /\ key.name = "up"
  THEN [st EXCEPT !.selectedModelIndex = wrapUp(@, Len(availableModels))]
  ELSE IF st.showModelSelection /\ key.name = "down"
  THEN [st EXCEPT !.selectedModelIndex = wrapDown(@, Len(availableModels))]
  ELSE IF st.showModelSelection /\ key.name \in {"tab", "return"}
  THEN LET selectedModel == availableModels[st.selectedModelIndex + 1]
       IN [st EXCEPT !.currentModel = selectedModel,
                     !.showModelSelection = FALSE,
                     !.selectedModelIndex = 0]
  ELSE editingKey(st, key, w)

\* The command-suggestion navigation and everything after it.
suggestionKey(st, key, w) ==
  LET filteredSuggestions == filterCommandSuggestions(commandSuggestions, st.input)
      n == Len(filteredSuggestions)
      closed == [st EXCEPT !.showCommandSuggestions = FALSE, !.selectedCommandIndex = 0]
  IN IF ~st.showCommandSuggestions THEN modelKey(st, key, w)
     ELSE IF n = 0 THEN modelKey(closed, key, w)
     ELSE IF key.name = "up"
     THEN [st EXCEPT !.selectedCommandIndex = wrapUp(@, n)]
     ELSE IF key.name = "down"
     THEN [st EXCEPT !.selectedCommandIndex = wrapDown(@, n)]
     ELSE IF key.name \in {"tab", "return"}
     THEN LET safeIndex == Lesser(st.selectedCommandIndex, n - 1)
              newInput == filteredSuggestions[safeIndex + 1] \o <<" ">>
          IN [setInput(st, newInput) EXCEPT !.cursorPosition = Len(newInput),
                                            !.showCommandSuggestions = FALSE,
                                            !.selectedCommandIndex = 0]
     ELSE modelKey(st, key, w)

\* The Escape block returns from the handler: one of its three branches is taken.
escapeReturns(st) ==
  st.showCommandSuggestions \/ st.showModelSelection \/ st.isProcessing \/ st.isStreaming

handleEscape_abortsBehindMenu(st) ==
  LET closed == IF st.showCommandSuggestions
                THEN [st EXCEPT !.showCommandSuggestions = FALSE, !.selectedCommandIndex = 0]
                ELSE [st EXCEPT !.showModelSelection = FALSE, !.selectedModelIndex = 0]
  IN IF st.isProcessing \/ st.isStreaming
     THEN [closed EXCEPT !.abortCalled = TRUE, !.isProcessing = FALSE, !.isStreaming = FALSE]
     ELSE closed

\* if (key.name === "escape") { ... }: the branch taken
handleEscape(st) ==
  IF st.showCommandSuggestions
  THEN [st EXCEPT !.showCommandSuggestions = FALSE, !.selectedCommandIndex = 0]
  ELSE IF st.showModelSelection
  THEN [st EXCEPT !.showModelSelection = FALSE, !.selectedModelIndex = 0]
  ELSE [st EXCEPT !.abortCalled = TRUE, !.isProcessing = FALSE, !.isStreaming = FALSE]

\* useKeyboard((key) => ...) of ChatInterface
mainKeyboard(st, key, w) ==
  IF ignoresKeys(st.options) THEN st
  ELSE IF key.ctrl /\ key.name = "c"
  THEN (IF st.input # <<>> THEN clearInput(st) ELSE [st EXCEPT !.exited = TRUE])
  ELSE IF key.shift /\ key.name = "tab"
  THEN [st EXCEPT !.autoEditEnabled = ~@,
                  !.sessionFlags = IF ~st.autoEditEnabled
                                   THEN setSessionFlag(@, "allOperations", TRUE)
                                   ELSE resetSession(@)]
  ELSE IF key.name = "escape" /\ escapeReturns(st) THEN handleEscape(st)
  ELSE suggestionKey(st, key, w)

\* The state the handler reads and writes.
Now ==
  [options |-> options, input |-> input, cursorPosition |-> cursorPosition,
   inputHistory |-> inputHistory, historyIndex |-> historyIndex,
   originalInput |-> originalInput,
   showCommandSuggestions |-> showCommandSuggestions,
   selectedCommandIndex |-> selectedCommandIndex,
   showModelSelection |-> showModelSelection, selectedModelIndex |-> selectedModelIndex,
   autoEditEnabled |-> autoEditEnabled, sessionFlags |-> sessionFlags,
   isProcessing |-> isProcessing, isStreaming |-> isStreaming,
   turnsInFlight |-> turnsInFlight, committing |-> committing, abortCalled |-> abortCalled,
   exited |-> exited, currentModel |-> currentModel]

Becomes(n) ==
  /\ options' = n.options /\ input' = n.input /\ cursorPosition' = n.cursorPosition
  /\ inputHistory' = n.inputHistory /\ historyIndex' = n.historyIndex
  /\ originalInput' = n.originalInput
  /\ showCommandSuggestions' = n.showCommandSuggestions
  /\ selectedCommandIndex' = n.selectedCommandIndex
  /\ showModelSelection' = n.showModelSelection
  /\ selectedModelIndex' = n.selectedModelIndex
  /\ autoEditEnabled' = n.autoEditEnabled /\ sessionFlags' = n.sessionFlags
  /\ isProcessing' = n.isProcessing /\ isStreaming' = n.isStreaming
  /\ turnsInFlight' = n.turnsInFlight /\ committing' = n.committing /\ abortCalled' = n.abortCalled
  /\ exited' = n.exited /\ currentModel' = n.currentModel
  /\ UNCHANGED <<keyRestA, keyRestO, restH>>

\* The word boundaries to consider for a key.
WordEnds(key) ==
  IF key.ctrl /\ key.name \in {"w", "left", "right", "backspace", "delete"}
  THEN 0..MaxInput ELSE {0}

\* One key press reaches the handler; w is where the word boundary lies for
\* the keys that move or delete by words.  At most MaxInput characters are
\* typed into the line, and MaxSubmits inputs are submitted.
KeyPress(key, w) ==
  /\ ~exited
  /\ LET n == mainKeyboard(Now, key, w)
     IN /\ key.sequence # <<>> /\ Len(n.input) > Len(input) => Len(input) < MaxInput
        /\ Len(n.inputHistory) <= MaxSubmits
        /\ n.turnsInFlight + n.committing <= MaxSubmits
        /\ Becomes(n)

\* A turn's stream ends (done, then the return of processUserMessage, or the
\* catch block): the indicators are reset.
TurnEnds ==
  /\ ~exited /\ turnsInFlight > 0
  /\ Becomes([Now EXCEPT !.turnsInFlight = @ - 1, !.isProcessing = FALSE, !.isStreaming = FALSE])

\* /commit-and-push ends: the indicators are reset and the input is cleared.
CommitAndPushReturns ==
  /\ ~exited /\ committing > 0
  /\ Becomes(clearInput([Now EXCEPT !.committing = @ - 1, !.isProcessing = FALSE,
                                    !.isStreaming = FALSE]))

\* A tool call of a turn in flight reaches the gate: the provider's listener
\* of "confirmation-requested" displays the request.
RequestDisplayed ==
  /\ ~exited /\ turnsInFlight > 0 /\ options = 0
  /\ Becomes([Now EXCEPT !.options = 1])

\* The dialog's own handler decides the request: confirm(...) or reject(...),
\* which both set the options to null; a rejection resets the indicators.
RequestDecided(rejected) ==
  /\ ~exited /\ options # 0
  /\ Becomes([Now EXCEPT !.options = 0,
                         !.isProcessing = IF rejected THEN FALSE ELSE @,
                         !.isStreaming = IF rejected THEN FALSE ELSE @])

NextKeys ==
  \/ \E key \in PressedKeys : \E w \in WordEnds(key) : KeyPress(key, w)
  \/ TurnEnds
  \/ CommitAndPushReturns
  \/ RequestDisplayed
  \/ \E rejected \in BOOLEAN : RequestDecided(rejected)

SpecKeys == Init /\ [][NextKeys]_vars

\* C28: while a confirmation dialog is displayed, a key press that reaches
\* the main keyboard handler changes nothing: whatever the key is, the input
\* text, the cursor, the input history, the two menus and the auto-edit flag
\* stay as they are, nothing is submitted, nothing is aborted, the process
\* does not exit.
C28_DialogSwallowsKeys ==
  options # 0 => \A key \in Keys : \A w \in WordEnds(key) : mainKeyboard(Now, key, w) = Now

\* The state as it would be without the dialog.
Undisplayed == [Now EXCEPT !.options = 0]

\* A dialog is displayed over a typed input with the command suggestions
\* shown and a turn in flight; without the dialog Escape, Enter, Shift+Tab and
\* Ctrl+C would each change the state.
C28_Witness ==
  /\ options # 0
  /\ input = <<"/">> /\ cursorPosition = 1 /\ showCommandSuggestions
  /\ isProcessing /\ turnsInFlight = 1
  /\ \A key \in {k \in Keys : k.name \in {"escape", "return", "tab", "c"}} :
       /\ mainKeyboard(Undisplayed, key, 0) # Undisplayed
       /\ mainKeyboard(Now, key, 0) = Now

\* The suggestions that the menu lists for the input as it is.
Filtered == filterCommandSuggestions(commandSuggestions, input)

\* The keys that apply the selected item of a menu.
ApplyKeys == {key \in Keys : key.name \in {"tab", "return"} /\ ~key.shift}

EscapeKeys == {key \in Keys : key.name = "escape"}

\* C39: one Escape press that reaches the main handler (no dialog displayed)
\* takes one branch by priority.  With the command suggestions shown it
\* closes them and does nothing else; otherwise, with the model selection
\* shown, it closes that and does nothing else; otherwise, with a turn
\* processing or streaming, it calls abort and resets the two indicators and
\* does nothing else; otherwise none of the three branches is taken: abort is
\* not called and no indicator is set.  With a menu open no abort is called
\* and the indicators stay as they are.
C39_EscapePriority ==
  options = 0 =>
    \A key \in EscapeKeys :
      LET after == mainKeyboard(Now, key, 0)
      IN /\ showCommandSuggestions =>
              after = [Now EXCEPT !.showCommandSuggestions = FALSE, !.selectedCommandIndex = 0]
         /\ ~showCommandSuggestions /\ showModelSelection =>
              after = [Now EXCEPT !.showModelSelection = FALSE, !.selectedModelIndex = 0]
         /\ ~showCommandSuggestions /\ ~showModelSelection /\ (isProcessing \/ isStreaming) =>
              after = [Now EXCEPT !.abortCalled = TRUE, !.isProcessing = FALSE,
                                  !.isStreaming = FALSE]
         /\ ~showCommandSuggestions /\ ~showModelSelection /\ ~isProcessing /\ ~isStreaming =>
              /\ after.abortCalled = abortCalled /\ ~after.showModelSelection
              /\ ~after.isProcessing /\ ~after.isStreaming
         /\ showCommandSuggestions \/ showModelSelection =>
              /\ after.abortCalled = abortCalled
              /\ after.isProcessing = isProcessing /\ after.isStreaming = isStreaming
              /\ after.turnsInFlight = turnsInFlight

\* A turn is in flight, not yet aborted, and the command suggestions are shown
\* over it: Escape closes the suggestions and leaves the turn alone, and the
\* next Escape aborts it.
C39_Witness ==
  /\ options = 0 /\ showCommandSuggestions /\ ~showModelSelection
  /\ isProcessing /\ isStreaming /\ turnsInFlight = 1 /\ ~abortCalled
  /\ \A key \in EscapeKeys :
       /\ ~mainKeyboard(Now, key, 0).showCommandSuggestions
       /\ ~mainKeyboard(Now, key, 0).abortCalled
       /\ mainKeyboard(Now, key, 0).isProcessing
       /\ mainKeyboard(mainKeyboard(Now, key, 0), key, 0).abortCalled

\* ------------------------------------------------ the input line on its own
\* The operations of InputProvider, called in any order.  At most MaxInput
\* characters are typed and MaxHistory texts are kept.
InputChars == {" ", "m"}
SubmittedTexts == {<<>>, <<" ">>, <<"m">>, <<" ", "m">>}

InsertAtCursor(ch) ==
  /\ Len(input) < MaxInput
  /\ Becomes(insertAtCursor(Now, <<ch>>))

Backspace(ctrl, w) == Becomes(handleBackspace(Now, ctrl, w))
Delete(ctrl, w) == Becomes(handleDelete(Now, ctrl, w))
Left(ctrl, w) == Becomes(handleLeft(Now, ctrl, w))
Right(ctrl, w) == Becomes(handleRight(Now, ctrl, w))
Up == Becomes(handleUp(Now))
Down == Becomes(handleDown(Now))
Home == Becomes(handleHome(Now))
End == Becomes(handleEnd(Now))
KillLine == Becomes(handleKillLine(Now))
KillLineBack == Becomes(handleKillLineBack(Now))
KillWord(w) == Becomes(handleKillWord(Now, w))
ClearInput == Becomes(clearInput(Now))

AddToHistory(text) ==
  /\ Len(addToHistory(Now, text).inputHistory) <= MaxHistory
  /\ Becomes(addToHistory(Now, text))

NextInput ==
  \/ \E ch \in InputChars : InsertAtCursor(ch)
  \/ \E ctrl \in BOOLEAN : \E w \in 0..MaxInput :
       \/ Backspace(ctrl, w)
       \/ Delete(ctrl, w)
       \/ Left(ctrl, w)
       \/ Right(ctrl, w)
       \/ KillWord(w)
  \/ Up
  \/ Down
  \/ Home
  \/ End
  \/ KillLine
  \/ KillLineBack
  \/ ClearInput
  \/ \E text \in SubmittedTexts : AddToHistory(text)

SpecInput == Init /\ [][NextInput]_vars

RECURSIVE ups(_, _)
\* k calls of handleUp, and of handleDown
ups(st, k) == IF k = 0 THEN st ELSE ups(handleUp(st), k - 1)

RECURSIVE downs(_, _)
downs(st, k) == IF k = 0 THEN st ELSE downs(handleDown(st), k - 1)

C35_HistoryWellFormed ==
  /\ [](/\ historyIndex \in -1..(Len(inputHistory) - 1)
        /\ \A i \in 1..Len(inputHistory) : trim(inputHistory[i]) # <<>>
        /\ \A i \in 1..(Len(inputHistory) - 1) : inputHistory[i] # inputHistory[i + 1])
  /\ [][IsPrefix(inputHistory, inputHistory')]_vars

\* The history is full and Up has gone back to its oldest entry.
C35_Witness ==
  /\ Len(inputHistory) = MaxHistory /\ historyIndex = 0
  /\ input = inputHistory[1] /\ originalInput # <<>>

\* C36: after any sequence of input operations the cursor lies within the
\* input text: 0 <= cursorPosition <= length of the input.
C36_CursorWithinInput ==
  0 <= cursorPosition /\ cursorPosition <= Len(input)

\* A history entry longer than what was typed is recalled, the cursor is at
\* its end, and moving right from there keeps it there.
C36_Witness ==
  /\ historyIndex # -1 /\ Len(input) = 2 /\ Len(originalInput) < 2
  /\ cursorPosition = Len(input)
  /\ handleRight(Now, FALSE, 0).cursorPosition = Len(input)

\* =========================================================================
\* Part I: /commit-and-push
\* =========================================================================
restI == <<varsA, chatVars, varsS, varsM, varsO, varsE, varsF, varsG, varsH>>

NoUpstream == "no upstream branch"

\* What agent.executeBashCommand resolves with: a ToolResult with its output
\* or its error (a text of tokens).
BashResults ==
  {[success |-> TRUE, output |-> o, error |-> <<>>] : o \in {<<>>, <<" ">>, <<"M f">>}}
    \cup {[success |-> FALSE, output |-> <<>>, error |-> e] :
             e \in {<<>>, <<"fatal:", NoUpstream>>, <<"rejected">>}}

\* pushResult.error?.includes("no upstream branch")
includes(text, part) == \E i \in 1..Len(text) : text[i] = part

\* !initialStatusResult.success || !initialStatusResult.output?.trim()
noChanges(r) == ~r.success \/ trim(r.output) = <<>>

setsUpstream_onAnyFailure(r) == ~r.success

\* !pushResult.success && pushResult.error?.includes("no upstream branch")
setsUpstream(r) == ~r.success /\ includes(r.error, NoUpstream)

\* if (!commitMessage) process.exit(1), in headless mode only
messageRefused(m, text) == m = "headless" /\ trim(text) = <<>>

\* await agent.executeBashCommand(command): the call is made and resolves with
\* r, after which the run is at position next; or the call throws into the
\* catch block, which ends the run.
executeBashCommand(command, r, threw, next) ==
  /\ gitLog' = Append(gitLog, [command |-> command, threw |-> threw, result |-> r])
  /\ gitPc' = IF threw THEN "ended" ELSE next
  /\ UNCHANGED gitMode

\* "/commit-and-push" is submitted, or `grok git commit-and-push` is run.
GitStart(m) ==
  /\ gitPc = "idle"
  /\ gitMode' = m
  /\ gitPc' = "status"
  /\ UNCHANGED gitLog
  /\ UNCHANGED restI

GitStatus(r, threw) ==
  /\ gitPc = "status"
  /\ executeBashCommand("git status --porcelain", r, threw,
                        IF noChanges(r) THEN "ended" ELSE "add")
  /\ UNCHANGED restI

GitAdd(r, threw) ==
  /\ gitPc = "add"
  /\ executeBashCommand("git add .", r, threw, IF ~r.success THEN "ended" ELSE "diff")
  /\ UNCHANGED restI

GitDiff(r, threw) ==
  /\ gitPc = "diff"
  /\ executeBashCommand("git diff --cached", r, threw, "message")
  /\ UNCHANGED restI

\* The model writes the commit message, or the call throws.
GitMessage(text, threw) ==
  /\ gitPc = "message"
  /\ gitPc' = IF threw \/ messageRefused(gitMode, text) THEN "ended" ELSE "commit"
  /\ UNCHANGED <<gitMode, gitLog>>
  /\ UNCHANGED restI

GitCommit(r, threw) ==
  /\ gitPc = "commit"
  /\ executeBashCommand("git commit", r, threw, IF r.success THEN "push" ELSE "ended")
  /\ UNCHANGED restI

GitPush(r, threw) ==
  /\ gitPc = "push"
  /\ executeBashCommand("git push", r, threw, IF setsUpstream(r) THEN "upstream" ELSE "ended")
  /\ UNCHANGED restI

GitPushUpstream(r, threw) ==
  /\ gitPc = "upstream"
  /\ executeBashCommand("git push -u origin HEAD", r, threw, "ended")
  /\ UNCHANGED restI

NextGit ==
  \/ \E m \in {"tui", "headless"} : GitStart(m)
  \/ \E r \in BashResults : \E threw \in BOOLEAN :
       \/ GitStatus(r, threw)
       \/ GitAdd(r, threw)
       \/ GitDiff(r, threw)
       \/ GitCommit(r, threw)
       \/ GitPush(r, threw)
       \/ GitPushUpstream(r, threw)
  \/ \E text \in {<<>>, <<" ">>, <<"fix: a">>} : \E threw \in BOOLEAN : GitMessage(text, threw)

SpecGit == Init /\ [][NextGit]_vars

\* The i-th bash command of the run was `command`.
Ran(i, command) == gitLog[i].command = command

\* It returned a successful result.
Succeeded(i) == ~gitLog[i].threw /\ gitLog[i].result.success

Pushes == {i \in 1..Len(gitLog) : Ran(i, "git push") \/ Ran(i, "git push -u origin HEAD")}

\* C33: in /commit-and-push, in the TUI and headless, git add runs only after
\* a git status that reported changes, git commit only after a git add that
\* succeeded, git push only after a git commit that succeeded; git push is
\* attempted at most twice, and the second attempt directly follows a first
\* one that failed with a "no upstream branch" error.
C33_GitSequence ==
  /\ \A i \in 1..Len(gitLog) :
       /\ Ran(i, "git add .") =>
            \E j \in 1..(i - 1) :
              /\ Ran(j, "git status --porcelain") /\ Succeeded(j)
              /\ trim(gitLog[j].result.output) # <<>>
       /\ Ran(i, "git commit") => \E j \in 1..(i - 1) : Ran(j, "git add .") /\ Succeeded(j)
       /\ Ran(i, "git push") => \E j \in 1..(i - 1) : Ran(j, "git commit") /\ Succeeded(j)
       /\ Ran(i, "git push -u origin HEAD") =>
            /\ i > 1 /\ Ran(i - 1, "git push")
            /\ ~gitLog[i - 1].threw /\ ~gitLog[i - 1].result.success
            /\ includes(gitLog[i - 1].result.error, NoUpstream)
  /\ Cardinality(Pushes) <= 2
  /\ Cardinality({i \in Pushes : Ran(i, "git push")}) <= 1

\* The first push failed for want of an upstream branch and the second push,
\* which sets it, succeeded.
C33_Witness ==
  /\ gitPc = "ended" /\ Len(gitLog) = 6
  /\ Ran(5, "git push") /\ ~Succeeded(5)
  /\ Ran(6, "git push -u origin HEAD") /\ Succeeded(6)

====
